---------------------------- MODULE Spec2Model ----------------------------
(***************************************************************************)
(* A model of the EigenSlur scoring backend (app/services/*.py, app/main). *)
(*                                                                         *)
(* Conventions.                                                            *)
(*  - A Python float is a fixed-point integer counting thousandths:        *)
(*    0.35 is 350, 0.08 is 80.  A product of two such numbers is divided   *)
(*    by 1000 (rounding down), a quotient is multiplied by 1000 first.     *)
(*  - A Python str is a sequence of one-character strings, <<"e","x">>.    *)
(*  - Python's None is the value None.                                     *)
(***************************************************************************)
EXTENDS Integers, Sequences, FiniteSets, TLC

VARIABLES
    call,             \* the call that returned last: name, arguments, result
    storage_present,  \* ScoreService.storage is not None
    term_scores,      \* the rows of table term_scores, in insertion order
    feedback,         \* the rows of table feedback, in insertion order
    request,          \* the score_term request in flight and its locals
    lock,             \* SQLiteStore._lock: the thread that holds it, or Unlocked
    connection,       \* SQLiteStore._connection: who runs a statement on it,
                      \* and the rows of its open transaction
    threads           \* the storage call each request thread is in

\* Optional values: None is the empty tuple, a present value v is <<v>>.
None == <<>>
Some(v) == <<v>>
TheValue(opt) == opt[1]

\* A result of a function that may raise: [raised |-> name of the exception]
\* or [raised |-> "", value |-> the value returned].
Raised(exception) == [raised |-> exception]
Returned(v) == [raised |-> "", value |-> v]

Max2(a, b) == IF a >= b THEN a ELSE b
Min2(a, b) == IF a <= b THEN a ELSE b

\* scoring.py _clamp: max(lo, min(hi, value))
clamp(value, lo, hi) == Max2(lo, Min2(hi, value))

\* Python's int() of a float: truncation toward zero (value in thousandths).
int_of_float(value) ==
    IF value >= 0 THEN value \div 1000 ELSE -((-value) \div 1000)

\* Mapping.get(key): the value under key, or None
MapGet(mapping, key) ==
    IF key \in DOMAIN mapping THEN Some(mapping[key]) ELSE None

(***************************************************************************)
(* text.py: tokenize, normalize_term, token_sequence_contains,             *)
(* split_sentences.  A str is a sequence of one-character strings.         *)
(***************************************************************************)
\* The characters of the model and their code points (Python orders str by
\* code point).
CodePoint(c) ==
    CASE c = " " -> 32 [] c = "!" -> 33 [] c = "'" -> 39 [] c = "-" -> 45
      [] c = "." -> 46 [] c = "?" -> 63 [] c = "A" -> 65 [] c = "B" -> 66
      [] c = "E" -> 69 [] c = "_" -> 95 [] c = "a" -> 97 [] c = "b" -> 98
      [] c = "d" -> 100 [] c = "e" -> 101 [] c = "o" -> 111 [] c = "u" -> 117
      [] c = "w" -> 119 [] c = "x" -> 120 [] c = "y" -> 121 [] c = "z" -> 122

\* str.lower() on one character
LowerChar(c) ==
    CASE c = "A" -> "a" [] c = "B" -> "b" [] c = "E" -> "e" [] OTHER -> c

lower(text) == [i \in 1..Len(text) |-> LowerChar(text[i])]

\* \s of the patterns and the characters str.strip() removes
IsSpace(c) == c = " "
\* [a-z0-9] of TOKEN_PATTERN
IsTokenChar(c) == c \in {"a", "b", "d", "e", "o", "u", "w", "x", "y", "z"}
\* [_'-] of TOKEN_PATTERN
IsJoiner(c) == c \in {"_", "'", "-"}
\* [.!?] of SENTENCE_SPLIT_PATTERN
IsSentenceEnd(c) == c \in {".", "!", "?"}

RECURSIVE lstrip(_)
lstrip(text) ==
    IF text # <<>> /\ IsSpace(Head(text)) THEN lstrip(Tail(text)) ELSE text

RECURSIVE rstrip(_)
rstrip(text) ==
    IF text # <<>> /\ IsSpace(text[Len(text)])
    THEN rstrip(SubSeq(text, 1, Len(text) - 1))
    ELSE text

\* str.strip()
strip(text) == rstrip(lstrip(text))

\* The last index of the run of [a-z0-9] that starts at index i.
RECURSIVE TokenRunEnd(_, _)
TokenRunEnd(text, i) ==
    IF i + 1 <= Len(text) /\ IsTokenChar(text[i + 1])
    THEN TokenRunEnd(text, i + 1)
    ELSE i

\* The last index of a TOKEN_PATTERN match whose first run ends at index j:
\* (?:[_'-][a-z0-9]+)* takes a joiner only when a token character follows.
RECURSIVE TokenMatchEnd(_, _)
TokenMatchEnd(text, j) ==
    IF j + 2 <= Len(text) /\ IsJoiner(text[j + 1]) /\ IsTokenChar(text[j + 2])
    THEN TokenMatchEnd(text, TokenRunEnd(text, j + 2))
    ELSE j

\* TOKEN_PATTERN.findall on a lowercased text, scanning from index i.
RECURSIVE FindAllTokens(_, _)
FindAllTokens(text, i) ==
    IF i > Len(text) THEN <<>>
    ELSE IF IsTokenChar(text[i])
    THEN LET last == TokenMatchEnd(text, TokenRunEnd(text, i))
         IN  <<SubSeq(text, i, last)>> \o FindAllTokens(text, last + 1)
    ELSE FindAllTokens(text, i + 1)

tokenize_case_sensitive(text) == FindAllTokens(text, 1)

tokenize(text) == FindAllTokens(lower(text), 1)

\* " ".join(tokens)
RECURSIVE JoinWithSpace(_)
JoinWithSpace(tokens) ==
    IF tokens = <<>> THEN <<>>
    ELSE IF Len(tokens) = 1 THEN tokens[1]
    ELSE tokens[1] \o <<" ">> \o JoinWithSpace(Tail(tokens))

normalize_term_keep_case(value) ==
    LET normalized == strip(value)
        tokens == tokenize(normalized)
    IN  IF tokens = <<>> THEN lower(normalized) ELSE JoinWithSpace(FindAllTokens(normalized, 1))

normalize_term(value) ==
    LET normalized == lower(strip(value))
        tokens == tokenize(normalized)
    IN  IF tokens = <<>> THEN normalized ELSE JoinWithSpace(tokens)

token_sequence_contains(tokens, term_tokens) ==
    IF term_tokens = <<>> THEN FALSE
    ELSE LET window == Len(term_tokens)
         IN  IF window > Len(tokens) THEN FALSE
             ELSE \E idx \in 0..(Len(tokens) - window) :
                    SubSeq(tokens, idx + 1, idx + window) = term_tokens

\* The last index of the run of whitespace that starts at index i.
RECURSIVE SpaceRunEnd(_, _)
SpaceRunEnd(text, i) ==
    IF i + 1 <= Len(text) /\ IsSpace(text[i + 1])
    THEN SpaceRunEnd(text, i + 1)
    ELSE i

\* SENTENCE_SPLIT_PATTERN.split(text): the pieces between the runs of
\* whitespace that follow one of . ! ?  (piece from index start, scan at i).
RECURSIVE SplitOnPattern(_, _, _)
SplitOnPattern(text, start, i) ==
    IF i > Len(text) THEN <<SubSeq(text, start, Len(text))>>
    ELSE IF IsSpace(text[i]) /\ i > 1 /\ IsSentenceEnd(text[i - 1])
    THEN LET last == SpaceRunEnd(text, i)
         IN  <<SubSeq(text, start, i - 1)>> \o SplitOnPattern(text, last + 1, last + 1)
    ELSE SplitOnPattern(text, start, i + 1)

\* [x for x in xs if x]: the non-empty elements, in order
RECURSIVE NonEmpty(_)
NonEmpty(xs) ==
    IF xs = <<>> THEN <<>>
    ELSE IF Head(xs) = <<>> THEN NonEmpty(Tail(xs))
    ELSE <<Head(xs)>> \o NonEmpty(Tail(xs))

split_sentences(text) ==
    LET pieces == SplitOnPattern(text, 1, 1)
        chunks == [i \in 1..Len(pieces) |-> strip(pieces[i])]
    IN  NonEmpty(chunks)

\* Python's order on str: by code point, a proper prefix first.
RECURSIVE StrLess(_, _)
StrLess(a, b) ==
    IF b = <<>> THEN FALSE
    ELSE IF a = <<>> THEN TRUE
    ELSE IF CodePoint(Head(a)) # CodePoint(Head(b))
    THEN CodePoint(Head(a)) < CodePoint(Head(b))
    ELSE StrLess(Tail(a), Tail(b))

\* sorted(S) for a set S of str
RECURSIVE sorted(_)
sorted(S) ==
    IF S = {} THEN <<>>
    ELSE LET least == CHOOSE x \in S : \A y \in S \ {x} : StrLess(x, y)
         IN  <<least>> \o sorted(S \ {least})

(***************************************************************************)
(* scoring.py: score_band and tuned_band_thresholds                        *)
(***************************************************************************)
Bands == {"monitor", "review", "block"}

BandRank(band) ==
    CASE band = "monitor" -> 0
      [] band = "review" -> 1
      [] band = "block" -> 2

score_band_no_review(score, review_threshold, block_threshold) ==
    IF score >= block_threshold THEN "block" ELSE "monitor"

score_band(score, review_threshold, block_threshold) ==
    IF score >= block_threshold THEN "block"
    ELSE IF score >= review_threshold THEN "review"
    ELSE "monitor"

\* scoring.py:39, the default of tuned_band_thresholds' min_samples
TunedMinSamples == 80

tuned_band_thresholds_unordered(default_review, default_block, quantiles, min_samples) ==
    IF quantiles = None THEN <<default_review, default_block>>
    ELSE
      LET mapping == TheValue(quantiles)
          raw_count == MapGet(mapping, "sample_count")
          sample_count == int_of_float(IF raw_count = None THEN 0 ELSE TheValue(raw_count))
          score_p70 == MapGet(mapping, "score_p70")
          score_p90 == MapGet(mapping, "score_p90")
      IN  IF sample_count < min_samples \/ score_p70 = None \/ score_p90 = None
          THEN <<default_review, default_block>>
          ELSE
            LET review == clamp((7 * default_review + 3 * TheValue(score_p70)) \div 10, 200, 750)
                block_candidate == (7 * default_block + 3 * TheValue(score_p90)) \div 10
            IN  <<review, clamp(block_candidate, 0, 950)>>

tuned_band_thresholds_low_gate(default_review, default_block, quantiles, min_samples) ==
    IF quantiles = None THEN <<default_review, default_block>>
    ELSE
      LET mapping == TheValue(quantiles)
          raw_count == MapGet(mapping, "sample_count")
          sample_count == int_of_float(IF raw_count = None THEN 0 ELSE TheValue(raw_count))
          score_p70 == MapGet(mapping, "score_p70")
          score_p90 == MapGet(mapping, "score_p90")
      IN  IF sample_count < min_samples - 1 \/ score_p70 = None \/ score_p90 = None
          THEN <<default_review, default_block>>
          ELSE
            LET review == clamp((7 * default_review + 3 * TheValue(score_p70)) \div 10, 200, 750)
                block_candidate == (7 * default_block + 3 * TheValue(score_p90)) \div 10
                min_block == review + 80
                block == clamp(Max2(block_candidate, min_block), min_block, 950)
            IN  <<review, block>>

tuned_band_thresholds(default_review, default_block, quantiles, min_samples) ==
    IF quantiles = None THEN <<default_review, default_block>>
    ELSE
      LET mapping == TheValue(quantiles)
          raw_count == MapGet(mapping, "sample_count")
          sample_count == int_of_float(IF raw_count = None THEN 0 ELSE TheValue(raw_count))
          score_p70 == MapGet(mapping, "score_p70")
          score_p90 == MapGet(mapping, "score_p90")
      IN  IF sample_count < min_samples \/ score_p70 = None \/ score_p90 = None
          THEN <<default_review, default_block>>
          ELSE
            LET review == clamp((7 * default_review + 3 * TheValue(score_p70)) \div 10, 200, 750)
                block_candidate == (7 * default_block + 3 * TheValue(score_p90)) \div 10
                min_block == review + 80
                block == clamp(Max2(block_candidate, min_block), min_block, 950)
            IN  <<review, block>>

(***************************************************************************)
(* spectral.py: the views of the covariance spectrum and the co-occurrence *)
(* graph.  The eigenvalue computations themselves (numpy.linalg.eigvalsh   *)
(* on hashed embeddings and on the normalised adjacency) are not computed: *)
(* where the code reaches the solver, its result is the value the          *)
(* argument solver carries, chosen by the caller among possible results.   *)
(***************************************************************************)
\* spectral.py _DEFAULT_STOPWORDS
DEFAULT_STOPWORDS ==
    {
      <<"a">>, <<"a", "n">>, <<"a", "n", "d">>, <<"a", "r", "e">>,
      <<"a", "s">>, <<"a", "t">>, <<"b", "e">>, <<"b", "e", "e", "n">>,
      <<"b", "u", "t">>, <<"b", "y">>, <<"f", "o", "r">>,
      <<"f", "r", "o", "m">>, <<"h", "a", "d">>, <<"h", "a", "s">>,
      <<"h", "a", "v", "e">>, <<"h", "e">>, <<"h", "e", "r">>,
      <<"h", "i", "s">>, <<"i">>, <<"i", "f">>, <<"i", "n">>,
      <<"i", "n", "t", "o">>, <<"i", "s">>, <<"i", "t">>,
      <<"i", "t", "s">>, <<"m", "e">>, <<"m", "y">>, <<"o", "f">>,
      <<"o", "n">>, <<"o", "r">>, <<"o", "u", "r">>, <<"s", "h", "e">>,
      <<"t", "h", "a", "t">>, <<"t", "h", "e">>,
      <<"t", "h", "e", "i", "r">>, <<"t", "h", "e", "m">>,
      <<"t", "h", "e", "y">>, <<"t", "h", "i", "s">>, <<"t", "o">>,
      <<"w", "a", "s">>, <<"w", "e">>, <<"w", "e", "r", "e">>,
      <<"w", "i", "t", "h">>, <<"y", "o", "u">>, <<"y", "o", "u", "r">>
    }

\* int(math.sqrt(n))
isqrt(n) == CHOOSE k \in 0..n : k * k <= n /\ (k + 1) * (k + 1) > n

\* the chunks tokens[start : start + window] of at least 2 tokens, joined,
\* for start = first, first + stride, ... (0-based start, as in the code)
RECURSIVE WindowSpans(_, _, _, _)
WindowSpans(tokens, first, window, stride) ==
    IF first >= Len(tokens) THEN <<>>
    ELSE LET chunk == SubSeq(tokens, first + 1, Min2(Len(tokens), first + window))
             rest == WindowSpans(tokens, first + stride, window, stride)
         IN  IF Len(chunk) < 2 THEN rest ELSE <<JoinWithSpace(chunk)>> \o rest

\* list(dict.fromkeys(xs)): first occurrences, in order
RECURSIVE Deduplicated(_)
Deduplicated(xs) ==
    IF xs = <<>> THEN <<>>
    ELSE LET init == Deduplicated(SubSeq(xs, 1, Len(xs) - 1))
             last == xs[Len(xs)]
         IN  IF \E i \in 1..Len(init) : init[i] = last THEN init
             ELSE Append(init, last)

\* spectral.py _covariance_views
covariance_views(contexts) ==
    LET cleaned == NonEmpty([i \in 1..Len(contexts) |-> strip(contexts[i])])
    IN  IF Len(cleaned) >= 2 THEN cleaned
        ELSE IF cleaned = <<>> THEN <<>>
        ELSE
          LET source == cleaned[1]
              sentence_views == split_sentences(source)
              tokens == tokenize(source)
              window == Min2(8, Max2(3, isqrt(Len(tokens)) + 1))
              stride == Max2(1, window \div 2)
              deduped == Deduplicated(WindowSpans(tokens, 0, window, stride))
              midpoint == Max2(1, Len(tokens) \div 2)
              halves == << JoinWithSpace(SubSeq(tokens, 1, midpoint)),
                           JoinWithSpace(SubSeq(tokens, midpoint + 1, Len(tokens))) >>
          IN  IF Len(sentence_views) >= 2 THEN sentence_views
              ELSE IF Len(tokens) < 2 THEN cleaned
              ELSE IF Len(deduped) >= 2 THEN deduped
              ELSE NonEmpty(halves)

context_covariance_largest_eigenvalue_unclamped(contexts, solver) ==
    IF Len(covariance_views(contexts)) < 2 THEN 0
    ELSE solver.covariance_eigenvalue

\* spectral.py context_covariance_largest_eigenvalue: 0.0 with fewer than
\* two views, else max(0.0, largest eigenvalue) as the solver finds it.
context_covariance_largest_eigenvalue(contexts, solver) ==
    IF Len(covariance_views(contexts)) < 2 THEN 0
    ELSE Max2(0, solver.covariance_eigenvalue)

\* spectral.py _filter_tokens
RECURSIVE KeepTokens(_, _, _)
KeepTokens(tokens, stopwords, min_token_length) ==
    IF tokens = <<>> THEN <<>>
    ELSE LET rest == KeepTokens(Tail(tokens), stopwords, min_token_length)
         IN  IF Len(Head(tokens)) >= min_token_length /\ Head(tokens) \notin stopwords
             THEN <<Head(tokens)>> \o rest
             ELSE rest

filter_tokens_keeping_stopwords(text, stopwords, min_token_length) ==
    KeepTokens(tokenize(text), {}, min_token_length)

filter_tokens(text, stopwords, min_token_length) ==
    KeepTokens(tokenize(text), stopwords, min_token_length)

\* spectral.py:154-155, the defaults of build_cooccurrence_graph
DefaultWindowSize == 6
DefaultMinTokenLength == 2

\* The pairs one context contributes (spectral.py:179-189): two different
\* tokens at positions left < right with right < left + window_size.
ContextPairs(tokens, window_size) ==
    { {tokens[p[1]], tokens[p[2]]} :
        p \in { q \in (1..Len(tokens)) \X (1..Len(tokens)) :
                  /\ q[1] < q[2]
                  /\ q[2] < q[1] + window_size
                  /\ tokens[q[1]] # tokens[q[2]] } }

\* 1.0 / float(right - left) is held in sixtieths, which is exact for the
\* distances 1..6 (spectral.py:186)
ProximityUnit == 60

\* spectral.py:179-189, context_pair_proximity[pair]: the largest proximity
\* at which the pair occurs within the window of one context, 0 when it
\* does not occur there
ContextPairProximity(tokens, window_size, pair) ==
    LET distances ==
            { q[2] - q[1] :
                q \in { r \in (1..Len(tokens)) \X (1..Len(tokens)) :
                          /\ r[1] < r[2]
                          /\ r[2] < r[1] + window_size
                          /\ {tokens[r[1]], tokens[r[2]]} = pair } }
    IN  IF distances = {} THEN 0
        ELSE ProximityUnit \div (CHOOSE d \in distances : \A e \in distances : d <= e)

\* spectral.py:191-193, pair_proximity_sum[pair] over the first n contexts
RECURSIVE PairProximitySum(_, _, _, _)
PairProximitySum(filtered, window_size, pair, n) ==
    IF n = 0 THEN 0
    ELSE PairProximitySum(filtered, window_size, pair, n - 1)
         + ContextPairProximity(filtered[n], window_size, pair)

\* 1000 * ln(n), rounded, for n = 1..16
LnThousandths ==
    << 0, 693, 1099, 1386, 1609, 1792, 1946, 2079,
       2197, 2303, 2398, 2485, 2565, 2639, 2708, 2773 >>

\* as ppmi, without the support term
ppmi_without_support(pair_count, context_count, df_a, df_b, proximity_sum) ==
    IF df_a = 0 \/ df_b = 0 THEN 0
    ELSE Max2(0, LnThousandths[pair_count * context_count]
                 - LnThousandths[df_a * df_b])

\* spectral.py:203-213, the weight of a counted pair in thousandths:
\* max(0, pmi) + support * mean_proximity, where support * mean_proximity
\* is pair_proximity_sum / context_count; 0 stands for a pair that is
\* skipped (df_a == 0 or df_b == 0)
ppmi(pair_count, context_count, df_a, df_b, proximity_sum) ==
    IF df_a = 0 \/ df_b = 0 THEN 0
    ELSE Max2(0, LnThousandths[pair_count * context_count]
                 - LnThousandths[df_a * df_b])
         + (1000 * proximity_sum) \div (ProximityUnit * context_count)

\* the set of the elements of a list
Elements(list) == { list[i] : i \in 1..Len(list) }

\* as token_document_frequency, but counting every occurrence of a token
token_document_frequency_counting_occurrences(filtered) ==
    [token \in UNION { Elements(filtered[i]) : i \in 1..Len(filtered) } |->
        Cardinality({ at \in UNION { {i} \X (1..Len(filtered[i])) : i \in 1..Len(filtered) } :
                        filtered[at[1]][at[2]] = token })]

\* spectral.py:176, token_document_frequency.update(set(tokens)) for every
\* context: the number of contexts whose filtered tokens hold the token
token_document_frequency(filtered) ==
    [token \in UNION { Elements(filtered[i]) : i \in 1..Len(filtered) } |->
        Cardinality({ i \in 1..Len(filtered) : token \in Elements(filtered[i]) })]

\* spectral.py build_cooccurrence_graph for window_size >= 2: the
\* CooccurrenceGraph it returns.  A pair is an unordered pair of tokens
\* (the code keys it by the sorted tuple); a pair is stored in both
\* directions unless its weight is <= 0 (spectral.py:214-218).
build_cooccurrence_graph(contexts, window_size, min_token_length, stopwords) ==
    LET filtered == [i \in 1..Len(contexts) |->
                        filter_tokens(contexts[i], stopwords, min_token_length)]
        counted == { i \in 1..Len(contexts) : filtered[i] # <<>> }
        context_count == Cardinality(counted)
        pairs == UNION { ContextPairs(filtered[i], window_size) : i \in counted }
        df(token) == IF token \in DOMAIN token_document_frequency(filtered)
                     THEN token_document_frequency(filtered)[token] ELSE 0
        weight(pair) ==
            LET token_a == CHOOSE token \in pair : TRUE
                token_b == CHOOSE token \in pair : token # token_a
            IN  ppmi(Cardinality({ i \in counted :
                                     pair \in ContextPairs(filtered[i], window_size) }),
                     context_count, df(token_a), df(token_b),
                     PairProximitySum(filtered, window_size, pair, Len(contexts)))
        stored == { pair \in pairs : weight(pair) > 0 }
    IN  [adjacency |->
            [token_a \in UNION stored |->
                [token_b \in { token \in UNION stored : token # token_a
                                                       /\ {token_a, token} \in stored } |->
                    weight({token_a, token_b})]],
         token_doc_frequency |-> token_document_frequency(filtered),
         context_count |-> context_count]

\* spectral.py:161-162 and the rest of build_cooccurrence_graph: what a
\* call returns or raises
call_build_cooccurrence_graph(contexts, window_size, min_token_length, stopwords) ==
    IF window_size < 2 THEN Raised("ValueError")
    ELSE Returned(build_cooccurrence_graph(contexts, window_size,
                                           min_token_length, stopwords))

\* the nodes of the adjacency: the tokens that have an edge
AdjacencyNodes(graph) == DOMAIN graph.adjacency

\* spectral.py term_graph_spectral_radius.  A target that is a node has an
\* ego subgraph of at least two connected nodes, whose normalised adjacency
\* has trace 0 and largest eigenvalue 1, hence a non-trivial eigenvalue
\* below 0 and a signal above 0; a target that is no node contributes
\* nothing (spectral.py:319-334).
term_graph_spectral_radius(term, graph, solver) ==
    LET targets == tokenize(normalize_term(term))
    IN  IF targets = <<>> THEN 0
        ELSE IF \E i \in 1..Len(targets) : targets[i] \in AdjacencyNodes(graph)
        THEN solver.graph_signal
        ELSE 0

(***************************************************************************)
(* fusion.py: the fusion engine.  Values are thousandths.                  *)
(***************************************************************************)
\* math.exp(x) raises OverflowError for x above 709.782...; _sigmoid calls
\* math.exp(-value).
sigmoid_overflows(value) == -value > 709782

\* 1000 / (1 + exp(-k/1000)) rounded, at k = -8000, -7750, ..., 8000
SigmoidKnots ==
    << 0, 0, 1, 1, 1, 1, 2, 2, 2, 3, 4,
       5, 7, 9, 11, 14, 18, 23, 29, 37, 47, 60,
       76, 95, 119, 148, 182, 223, 269, 321, 378, 438, 500,
       562, 622, 679, 731, 777, 818, 852, 881, 905, 924, 940,
       953, 963, 971, 977, 982, 986, 989, 991, 993, 995, 996,
       997, 998, 998, 998, 999, 999, 999, 999, 1000, 1000 >>

\* fusion.py _sigmoid, by linear interpolation between the knots above;
\* below -8 it is 0.000 and above 8 it is 1.000 to three places.
sigmoid(value) ==
    IF value <= -8000 THEN 0
    ELSE IF value >= 8000 THEN 1000
    ELSE LET k == (value + 8000) \div 250
             lo == SigmoidKnots[k + 1]
             hi == SigmoidKnots[k + 2]
         IN  lo + ((hi - lo) * ((value + 8000) % 250)) \div 250

\* fusion.py _clamp with its default bounds 0.0 and 1.0
clamp01(value) == clamp(value, 0, 1000)

\* fusion.py _compress_nonnegative: tanh(log1p(max(0, v))), which is
\* (x^2 - 1) / (x^2 + 1) for x = 1 + max(0, v); x_squared is in thousandths.
compress_nonnegative(value) ==
    LET x == 1000 + Max2(0, value)
        x_squared == (x * x) \div 1000
    IN  (1000 * (x_squared - 1000)) \div (x_squared + 1000)

\* fusion.py _safe_quantile (feature_quantiles is None or <<mapping>>)
safe_quantile(feature_quantiles, key) ==
    IF feature_quantiles = None THEN None
    ELSE MapGet(TheValue(feature_quantiles), key)


\* fusion.py _calibrate_nonnegative_feature
calibrate_nonnegative_feature(value, p50, p90) ==
    LET baseline == compress_nonnegative(value)
    IN  IF p50 = None \/ p90 = None THEN Returned(baseline)
        ELSE IF TheValue(p90) <= TheValue(p50) THEN Returned(baseline)
        ELSE LET spread == TheValue(p90) - TheValue(p50)
                 z_score == (1000 * (value - TheValue(p50))) \div spread
                 scaled == (12 * z_score) \div 10
             IN  IF sigmoid_overflows(scaled) THEN Raised("OverflowError")
                 ELSE Returned(clamp01((450 * baseline + 550 * sigmoid(scaled)) \div 1000))

\* fusion.py FusionEngine with the defaults of its fields
FusionEngine ==
    [review_threshold |-> 350, block_threshold |-> 650,
     model_version |-> "fusion_v1",
     b0 |-> -800, b1 |-> 900, b2 |-> 700, b3 |-> 1100, b4 |-> 1000,
     b5 |-> 900, b6 |-> 400]

Abs(x) == IF x >= 0 THEN x ELSE -x

\* fusion.py FusionEngine.fuse
fuse(engine, features, feature_quantiles) ==
    LET graph_signal == calibrate_nonnegative_feature(
                            features.lambda_graph,
                            safe_quantile(feature_quantiles, "eigen_graph_p50"),
                            safe_quantile(feature_quantiles, "eigen_graph_p90"))
        ctx_signal == calibrate_nonnegative_feature(
                            features.lambda_ctx,
                            safe_quantile(feature_quantiles, "eigen_ctx_p50"),
                            safe_quantile(feature_quantiles, "eigen_ctx_p90"))
    IN  IF graph_signal.raised # "" THEN graph_signal
        ELSE IF ctx_signal.raised # "" THEN ctx_signal
        ELSE
          LET linear == ( 1000 * engine.b0
                          + engine.b1 * graph_signal.value
                          + engine.b2 * ctx_signal.value
                          + engine.b3 * features.severity_mean
                          + engine.b4 * features.targetedness_mean
                          - engine.b5 * features.reclaimed_rate
                          + engine.b6 * features.trend_velocity ) \div 1000
          IN  IF sigmoid_overflows(linear) THEN Raised("OverflowError")
              ELSE
                LET score == sigmoid(linear)
                    sample_strength == Min2(1000, (1000 * features.sample_size) \div 20)
                    confidence == clamp01(( 450 * 1000
                                            + 250 * Abs((score - 500) * 2)
                                            + 200 * sample_strength
                                            - 100 * features.reclaimed_rate ) \div 1000)
                    band == IF score >= engine.block_threshold THEN "block"
                            ELSE IF score >= engine.review_threshold THEN "review"
                            ELSE "monitor"
                IN  Returned([score |-> clamp01(score), confidence |-> confidence,
                              band |-> band, linear_value |-> linear,
                              model_version |-> engine.model_version])

(***************************************************************************)
(* storage.py: SQLiteStore.  A table is the sequence of its rows in        *)
(* insertion order; ids are AUTOINCREMENT and rows are never deleted, so   *)
(* the row at position i has id i.  created_at is CURRENT_TIMESTAMP, the   *)
(* wall clock in whole seconds.                                            *)
(***************************************************************************)
\* the id an INSERT assigns (cursor.lastrowid)
NextRowId(table) == Len(table) + 1

\* storage.py SQLiteStore.save_term_score: the table after the INSERT
save_term_score(table, score, now) ==
    Append(table,
           [id |-> NextRowId(table),
            term |-> normalize_term(score.term),
            locale |-> score.locale,
            sample_size |-> score.sample_size,
            eigen_ctx |-> score.eigen_ctx,
            eigen_graph |-> score.eigen_graph,
            severity_mean |-> score.severity_mean,
            targetedness_mean |-> score.targetedness_mean,
            reclaimed_rate |-> score.reclaimed_rate,
            trend_velocity |-> score.trend_velocity,
            score |-> score.score,
            confidence |-> score.confidence,
            band |-> score.band,
            model_version |-> score.model_version,
            created_at |-> now])

\* numeric order, the order of numpy's sort
NumericLess(a, b) == a < b

\* numpy.quantile(values, tenths / 10), method "linear": the value at the
\* virtual index q * (n - 1) of the sorted values, interpolated.
quantile(values, tenths) ==
    LET n == Len(values)
        ordered == SortSeq(values, NumericLess)
        position == tenths * (n - 1)
        below == position \div 10
        above == Min2(below + 1, n - 1)
        lo == ordered[below + 1]
        hi == ordered[above + 1]
    IN  lo + ((hi - lo) * (position % 10)) \div 10

\* storage.py:107-108, the defaults of get_feature_quantiles
DefaultSampleLimit == 1000
DefaultMinSamples == 40

\* get_feature_quantiles with the lower end of the limit fixed at the
\* default of min_samples
get_feature_quantiles_with_fixed_floor(table, sample_limit, min_samples) ==
    LET safe_limit == Max2(40, Min2(sample_limit, 5000))
        n == Len(table)
        rows == SubSeq(table, Max2(1, n - safe_limit + 1), n)
        eigen_ctx == [i \in 1..Len(rows) |-> rows[i].eigen_ctx]
        eigen_graph == [i \in 1..Len(rows) |-> rows[i].eigen_graph]
        scores == [i \in 1..Len(rows) |-> rows[i].score]
    IN  IF Len(rows) < min_samples THEN None
        ELSE IF Len(rows) = 0 THEN None
        ELSE Some([sample_count |-> 1000 * Len(rows),
                   eigen_ctx_p50 |-> quantile(eigen_ctx, 5),
                   eigen_ctx_p90 |-> quantile(eigen_ctx, 9),
                   eigen_graph_p50 |-> quantile(eigen_graph, 5),
                   eigen_graph_p90 |-> quantile(eigen_graph, 9),
                   score_p70 |-> quantile(scores, 7),
                   score_p90 |-> quantile(scores, 9)])

\* storage.py SQLiteStore.get_feature_quantiles; the rows are the last
\* safe_limit rows of the table (ORDER BY id DESC LIMIT safe_limit), and
\* SQLite reads a negative LIMIT as no limit
get_feature_quantiles(table, sample_limit, min_samples) ==
    LET safe_limit == Max2(min_samples, Min2(sample_limit, 5000))
        n == Len(table)
        rows == IF safe_limit < 0 THEN table
                ELSE SubSeq(table, Max2(1, n - safe_limit + 1), n)
        eigen_ctx == [i \in 1..Len(rows) |-> rows[i].eigen_ctx]
        eigen_graph == [i \in 1..Len(rows) |-> rows[i].eigen_graph]
        scores == [i \in 1..Len(rows) |-> rows[i].score]
    IN  IF Len(rows) < min_samples THEN None
        ELSE IF Len(rows) = 0 THEN None
        ELSE Some([sample_count |-> 1000 * Len(rows),
                   eigen_ctx_p50 |-> quantile(eigen_ctx, 5),
                   eigen_ctx_p90 |-> quantile(eigen_ctx, 9),
                   eigen_graph_p50 |-> quantile(eigen_graph, 5),
                   eigen_graph_p90 |-> quantile(eigen_graph, 9),
                   score_p70 |-> quantile(scores, 7),
                   score_p90 |-> quantile(scores, 9)])

\* ORDER BY created_at DESC, id DESC: row a comes before row b
ComesFirst_oldest_id_first(a, b) ==
    \/ a.created_at > b.created_at
    \/ a.created_at = b.created_at /\ a.id < b.id

ComesFirst(a, b) ==
    \/ a.created_at > b.created_at
    \/ a.created_at = b.created_at /\ a.id > b.id

\* storage.py:163-185: a row as a TermScoreHistoryItem
HistoryItem(row) ==
    [id |-> row.id, term |-> row.term, locale |-> row.locale,
     score |-> row.score, confidence |-> row.confidence,
     band |-> IF row.band = "block" THEN "block"
              ELSE IF row.band = "review" THEN "review"
              ELSE "monitor",
     model_version |-> row.model_version, created_at |-> row.created_at]

\* storage.py SQLiteStore.get_term_history
store_get_term_history(table, term, limit) ==
    LET safe_limit == Max2(1, Min2(limit, 200))
        wanted == normalize_term(term)
        IsWanted(row) == row.term = wanted
        ordered == SortSeq(SelectSeq(table, IsWanted), ComesFirst)
        rows == SubSeq(ordered, 1, Min2(safe_limit, Len(ordered)))
    IN  [i \in 1..Len(rows) |-> HistoryItem(rows[i])]

\* storage.py SQLiteStore.save_feedback: the table after the INSERT
save_feedback(table, feedback_request, now) ==
    Append(table,
           [id |-> NextRowId(table),
            term |-> normalize_term(feedback_request.term),
            locale |-> feedback_request.locale,
            feedback_type |-> feedback_request.feedback_type,
            proposed_band |-> feedback_request.proposed_band,
            proposed_score |-> feedback_request.proposed_score,
            notes |-> feedback_request.notes,
            created_at |-> now])

\* storage.py:18, threading.Lock: held by one thread, or by none
Unlocked == 0

\* `with self._lock` enters when the lock is free and blocks otherwise
can_acquire_while_held(held_by) == TRUE

can_acquire(held_by) == held_by = Unlocked

\* storage.py:24, the one sqlite3 connection every request shares: no
\* statement runs on it and its transaction is empty
IdleConnection ==
    [executing |-> {}, uncommitted_scores |-> 0, uncommitted_feedback |-> 0]

\* the threads that serve requests (the endpoints of main.py are plain
\* functions, which the server runs in its thread pool)
NumThreads == 2
Threads == 1..NumThreads

IdleThread == [pc |-> "idle", op |-> "", args |-> <<>>, result |-> None]
NoThreads == [t \in Threads |-> IdleThread]

(***************************************************************************)
(* scoring.py: ScoreService.score_term, one operator per stretch of the    *)
(* method between two calls that can raise or touch storage.  A request    *)
(* is the record of the method's arguments and locals; pc is the stretch   *)
(* that runs next; a stretch leaves a request that an exception has      *)
(* already taken out of the method as it is.                              *)
(***************************************************************************)
TermAbsentWarning ==
    "The scored term was not found in any provided context. Add contexts that include the exact term for reliable scoring."
NoGraphSignalWarning ==
    "No graph signal was found for this term in the provided contexts. Add more varied contexts where the term co-occurs with descriptive language."

NoRequest ==
    [pc |-> "idle", term |-> <<>>, contexts |-> <<>>, locale |-> "",
     trend_velocity |-> 0, persist |-> FALSE,
     target |-> <<>>, term_found_in_context |-> FALSE, warnings |-> <<>>,
     sample_size |-> 0, severity_mean |-> 0, targetedness_mean |-> 0,
     reclaimed_rate |-> 0, eigen_ctx |-> 0, eigen_graph |-> 0,
     rows_read |-> None, feature_quantiles |-> None,
     review_threshold |-> 0, block_threshold |-> 0,
     fusion |-> None, response |-> None, error |-> ""]

\* an exception leaves the method
Fails(req, exception) == [req EXCEPT !.pc = "failed", !.error = exception]

\* sum(f(label) for label in labels)
RECURSIVE SumOver(_, _)
SumOver(labels, field) ==
    IF labels = <<>> THEN 0
    ELSE (CASE field = "severity" -> Head(labels).severity
            [] field = "targetedness" -> Head(labels).targetedness
            [] field = "reclaimed" -> IF Head(labels).reclaimed THEN 1 ELSE 0)
         + SumOver(Tail(labels), field)

\* scoring.py:84-94
score_term_enter(term, contexts, locale, trend_velocity, persist) ==
    LET target == normalize_term(term)
        target_tokens == tokenize(target)
        term_found_in_context ==
            \E i \in 1..Len(contexts) :
                token_sequence_contains(tokenize(contexts[i]), target_tokens)
    IN  [NoRequest EXCEPT
            !.pc = "label", !.term = term, !.contexts = contexts,
            !.locale = locale, !.trend_velocity = trend_velocity,
            !.persist = persist, !.target = target,
            !.term_found_in_context = term_found_in_context,
            !.warnings = IF ~term_found_in_context
                         THEN <<TermAbsentWarning>> ELSE <<>>]

\* scoring.py:96-101; labelled is what labeler.label_batch did: it raised,
\* or it returned one label per context
score_term_label(req, labelled) ==
    IF req.pc = "failed" THEN req ELSE
    IF labelled.raised # "" THEN Fails(req, labelled.raised)
    ELSE LET labels == labelled.value
             sample_size == Len(req.contexts)
         IN  IF sample_size = 0 THEN Fails(req, "ZeroDivisionError")
             ELSE [req EXCEPT
                     !.pc = "spectral",
                     !.sample_size = sample_size,
                     !.severity_mean =
                         SumOver(labels, "severity") \div sample_size,
                     !.targetedness_mean =
                         SumOver(labels, "targetedness") \div sample_size,
                     !.reclaimed_rate =
                         (1000 * SumOver(labels, "reclaimed")) \div sample_size]

score_term_spectral_warning_unguarded(req, solver) ==
    IF req.pc = "failed" THEN req ELSE
    LET eigen_ctx == context_covariance_largest_eigenvalue(req.contexts, solver)
        graph == build_cooccurrence_graph(req.contexts, DefaultWindowSize,
                                          DefaultMinTokenLength, DEFAULT_STOPWORDS)
        eigen_graph == term_graph_spectral_radius(req.target, graph, solver)
    IN  [req EXCEPT
            !.pc = "quantiles",
            !.eigen_ctx = eigen_ctx,
            !.eigen_graph = eigen_graph,
            !.warnings = IF eigen_graph <= 0
                         THEN Append(@, NoGraphSignalWarning) ELSE @]

\* scoring.py:103-111
score_term_spectral(req, solver) ==
    IF req.pc = "failed" THEN req ELSE
    LET eigen_ctx == context_covariance_largest_eigenvalue(req.contexts, solver)
        graph == build_cooccurrence_graph(req.contexts, DefaultWindowSize,
                                          DefaultMinTokenLength, DEFAULT_STOPWORDS)
        eigen_graph == term_graph_spectral_radius(req.target, graph, solver)
    IN  [req EXCEPT
            !.pc = "quantiles",
            !.eigen_ctx = eigen_ctx,
            !.eigen_graph = eigen_graph,
            !.warnings = IF req.term_found_in_context /\ eigen_graph <= 0
                         THEN Append(@, NoGraphSignalWarning) ELSE @]

score_term_quantiles_not_read(req, engine, has_storage, table) ==
    IF req.pc = "failed" THEN req ELSE
    LET tuned == tuned_band_thresholds(engine.review_threshold,
                                       engine.block_threshold,
                                       None, TunedMinSamples)
    IN  [req EXCEPT
            !.pc = "fuse",
            !.rows_read = IF has_storage THEN Some(Len(table)) ELSE None,
            !.feature_quantiles = None,
            !.review_threshold = tuned[1],
            !.block_threshold = tuned[2]]

score_term_quantiles_counting_rows(req, engine, has_storage, table) ==
    IF req.pc = "failed" THEN req ELSE
    LET feature_quantiles ==
            IF has_storage
            THEN get_feature_quantiles(table, DefaultSampleLimit, DefaultMinSamples)
            ELSE None
        tuned == tuned_band_thresholds(engine.review_threshold,
                                       engine.block_threshold,
                                       feature_quantiles, TunedMinSamples)
    IN  [req EXCEPT
            !.pc = "fuse",
            !.sample_size = @ + Len(table),
            !.rows_read = IF has_storage THEN Some(Len(table)) ELSE None,
            !.feature_quantiles = feature_quantiles,
            !.review_threshold = tuned[1],
            !.block_threshold = tuned[2]]

\* scoring.py:113-121; rows_read notes how many rows the table held when
\* it was read
score_term_quantiles(req, engine, has_storage, table) ==
    IF req.pc = "failed" THEN req ELSE
    LET feature_quantiles ==
            IF has_storage
            THEN get_feature_quantiles(table, DefaultSampleLimit, DefaultMinSamples)
            ELSE None
        tuned == tuned_band_thresholds(engine.review_threshold,
                                       engine.block_threshold,
                                       feature_quantiles, TunedMinSamples)
    IN  [req EXCEPT
            !.pc = "fuse",
            !.rows_read = IF has_storage THEN Some(Len(table)) ELSE None,
            !.feature_quantiles = feature_quantiles,
            !.review_threshold = tuned[1],
            !.block_threshold = tuned[2]]

\* scoring.py:135-139: the band of the response
response_band_from_fusion(fusion, review_threshold, block_threshold) ==
    fusion.band

response_band(fusion, review_threshold, block_threshold) ==
    score_band(fusion.score, review_threshold, block_threshold)

\* scoring.py:124-132: the FeatureVector passed to fuse
feature_vector(req) ==
    [lambda_graph |-> req.eigen_graph,
     lambda_ctx |-> req.eigen_ctx,
     severity_mean |-> req.severity_mean,
     targetedness_mean |-> req.targetedness_mean,
     reclaimed_rate |-> req.reclaimed_rate,
     trend_velocity |-> req.trend_velocity,
     sample_size |-> req.sample_size]

\* score_term calling fuse without the feature_quantiles argument
score_term_fuse_without_quantiles(req, engine) ==
    IF req.pc = "failed" THEN req ELSE
    LET fused == fuse(engine, feature_vector(req), None)
    IN  IF fused.raised # "" THEN Fails(req, fused.raised)
        ELSE LET fusion == fused.value
             IN  [req EXCEPT
                    !.pc = "persist",
                    !.fusion = Some(fusion),
                    !.response = Some(
                        [term |-> req.target,
                         locale |-> req.locale,
                         sample_size |-> req.sample_size,
                         eigen_ctx |-> req.eigen_ctx,
                         eigen_graph |-> req.eigen_graph,
                         severity_mean |-> req.severity_mean,
                         targetedness_mean |-> req.targetedness_mean,
                         reclaimed_rate |-> req.reclaimed_rate,
                         trend_velocity |-> req.trend_velocity,
                         score |-> fusion.score,
                         confidence |-> fusion.confidence,
                         band |-> response_band(fusion, req.review_threshold,
                                                req.block_threshold),
                         model_version |-> fusion.model_version,
                         warnings |-> req.warnings])]

\* scoring.py:123-156
score_term_fuse(req, engine) ==
    IF req.pc = "failed" THEN req ELSE
    LET fused == fuse(engine, feature_vector(req), req.feature_quantiles)
    IN  IF fused.raised # "" THEN Fails(req, fused.raised)
        ELSE LET fusion == fused.value
             IN  [req EXCEPT
                    !.pc = "persist",
                    !.fusion = Some(fusion),
                    !.response = Some(
                        [term |-> req.target,
                         locale |-> req.locale,
                         sample_size |-> req.sample_size,
                         eigen_ctx |-> req.eigen_ctx,
                         eigen_graph |-> req.eigen_graph,
                         severity_mean |-> req.severity_mean,
                         targetedness_mean |-> req.targetedness_mean,
                         reclaimed_rate |-> req.reclaimed_rate,
                         trend_velocity |-> req.trend_velocity,
                         score |-> fusion.score,
                         confidence |-> fusion.confidence,
                         band |-> response_band(fusion, req.review_threshold,
                                                req.block_threshold),
                         model_version |-> fusion.model_version,
                         warnings |-> req.warnings])]

\* scoring.py:157: whether the response is saved
should_persist_whenever_stored(persist, has_storage) == has_storage

should_persist(persist, has_storage) == persist /\ has_storage

\* scoring.py:157-158: the table after the last stretch of the method
score_term_persist(req, has_storage, table, now) ==
    IF should_persist(req.persist, has_storage)
    THEN save_term_score(table, TheValue(req.response), now)
    ELSE table

\* the request as the method ends and the table it leaves
score_term_return(req, has_storage, table, now) ==
    IF req.pc = "failed"
    THEN [request |-> req, table |-> table]
    ELSE [request |-> [req EXCEPT !.pc = "done"],
          table |-> score_term_persist(req, has_storage, table, now)]

\* the whole method, run without interruption
score_term(engine, has_storage, table, now, term, contexts, locale, trend_velocity, persist, labelled, solver) ==
    score_term_return(
        score_term_fuse(
            score_term_quantiles(
                score_term_spectral(
                    score_term_label(
                        score_term_enter(term, contexts, locale,
                                         trend_velocity, persist),
                        labelled),
                    solver),
                engine, has_storage, table),
            engine),
        has_storage, table, now)

\* scoring.py:168-170: the candidates in the order of the loop
text_candidates_as_given(candidate_terms) ==
    LET kept == SelectSeq(candidate_terms, LAMBDA term : strip(term) # <<>>)
    IN  [i \in 1..Len(kept) |-> normalize_term(kept[i])]

text_candidates(candidate_terms) ==
    sorted({ normalize_term(candidate_terms[i]) :
             i \in {j \in 1..Len(candidate_terms) : strip(candidate_terms[j]) # <<>>} })

\* scoring.py:165: split_sentences(text) or [text]
text_sentences(text) ==
    IF split_sentences(text) = <<>> THEN <<text>> ELSE split_sentences(text)

\* as term_contexts, without the fallback to the whole text
term_contexts_without_fallback(text, candidate_tokens) ==
    SelectSeq(text_sentences(text),
              LAMBDA sentence :
                  token_sequence_contains(tokenize(sentence), candidate_tokens))

\* scoring.py:174-180: the contexts a candidate is scored on
term_contexts(text, candidate_tokens) ==
    LET matching == SelectSeq(text_sentences(text),
                              LAMBDA sentence :
                                  token_sequence_contains(tokenize(sentence),
                                                          candidate_tokens))
    IN  IF matching = <<>> THEN <<text>> ELSE matching

\* scoring.py:189-196
TextTermScore(scored) ==
    [term |-> scored.term, score |-> scored.score,
     confidence |-> scored.confidence, band |-> scored.band]

\* scoring.py:168-196, the loop from its i-th candidate on; env holds what
\* the loop does not change, labelled what the labeler says of a context
\* requests are the score_term requests made so far, as they ended
RECURSIVE score_text_loop(_, _, _, _, _, _)
RECURSIVE score_text_scored(_, _, _, _, _, _)
score_text_loop(env, candidates, i, table, results, requests) ==
    IF i > Len(candidates)
    THEN [raised |-> "", results |-> results, table |-> table,
          requests |-> requests]
    ELSE IF ~token_sequence_contains(tokenize(env.text), tokenize(candidates[i]))
    THEN score_text_loop(env, candidates, i + 1, table, results, requests)
    ELSE score_text_scored(
            env, candidates, i,
            score_term(env.engine, env.has_storage, table, env.now,
                       candidates[i],
                       term_contexts(env.text, tokenize(candidates[i])),
                       env.locale, 0, env.persist,
                       Returned([j \in 1..Len(term_contexts(env.text,
                                                            tokenize(candidates[i])))
                                 |-> env.label]),
                       env.solver),
            results, requests)

score_text_scored(env, candidates, i, scored, results, requests) ==
    IF scored.request.pc = "failed"
    THEN [raised |-> scored.request.error, results |-> results,
          table |-> scored.table, requests |-> Append(requests, scored.request)]
    ELSE score_text_loop(env, candidates, i + 1, scored.table,
                         Append(results,
                                TextTermScore(TheValue(scored.request.response))),
                         Append(requests, scored.request))

\* scoring.py:198-200
score_text_return(locale, looped) ==
    [outcome |-> IF looped.raised # "" THEN Raised(looped.raised)
                 ELSE Returned([locale |-> locale,
                                terms_found |-> Len(looped.results),
                                results |-> looped.results]),
     table |-> looped.table,
     requests |-> looped.requests]

\* scoring.py ScoreService.score_text: what the call did and the table it
\* leaves
score_text(engine, has_storage, table, now, text, candidate_terms, locale, persist, label, solver) ==
    score_text_return(
        locale,
        score_text_loop([engine |-> engine, has_storage |-> has_storage,
                         now |-> now, text |-> text, locale |-> locale,
                         persist |-> persist, label |-> label, solver |-> solver],
                        text_candidates(candidate_terms), 1, table, <<>>, <<>>))

\* scoring.py ScoreService.get_term_history
get_term_history(has_storage, table, term, limit) ==
    LET normalized == normalize_term(term)
    IN  IF ~has_storage
        THEN [term |-> normalized, count |-> 0, history |-> <<>>]
        ELSE LET history == store_get_term_history(table, normalized, limit)
             IN  [term |-> normalized, count |-> Len(history), history |-> history]

\* scoring.py ScoreService.submit_feedback: what the call did and the
\* feedback table it leaves
submit_feedback_unguarded(has_storage, table, payload, now) ==
    [outcome |-> Returned([status |-> "accepted", feedback_id |-> NextRowId(table)]),
     table |-> save_feedback(table, payload, now)]

submit_feedback(has_storage, table, payload, now) ==
    IF ~has_storage
    THEN [outcome |-> Raised("RuntimeError"), table |-> table]
    ELSE [outcome |-> Returned([status |-> "accepted",
                                feedback_id |-> NextRowId(table)]),
          table |-> save_feedback(table, payload, now)]

\* main.py:110-115, the status code of POST /feedback
feedback_status_code(outcome) ==
    IF outcome.raised = "RuntimeError" THEN 503 ELSE 200

(***************************************************************************)
(* The two pure functions under every argument of a bounded grid.          *)
(***************************************************************************)
\* scores and thresholds tried, in thousandths (some outside [0,1])
GridValues == {-100, 0, 349, 350, 650, 651, 1300}
DefaultThresholds == {0, 350, 650}
\* sample_count values tried, in thousandths (79.5 and 80.5 are not whole)
SampleCounts == {-500, 79000, 79500, 80000, 80500, 160000}
QuantileValues == {0, 520, 820, 1000}

QuantileMapping(sc, p70, p90) ==
    LET keys == (IF sc = None THEN {} ELSE {"sample_count"})
                \cup (IF p70 = None THEN {} ELSE {"score_p70"})
                \cup (IF p90 = None THEN {} ELSE {"score_p90"})
    IN  [k \in keys |-> CASE k = "sample_count" -> TheValue(sc)
                          [] k = "score_p70" -> TheValue(p70)
                          [] k = "score_p90" -> TheValue(p90)]

Optional(S) == {None} \cup {Some(v) : v \in S}

QuantileMappings ==
    {None} \cup
    { Some(QuantileMapping(sc, p70, p90)) :
        sc \in Optional(SampleCounts),
        p70 \in Optional(QuantileValues),
        p90 \in Optional(QuantileValues) }

NoCall == [fn |-> "none", args |-> <<>>, result |-> <<>>]

InitBands ==
    /\ call = NoCall
    /\ storage_present = FALSE
    /\ term_scores = <<>>
    /\ feedback = <<>>
    /\ request = NoRequest
    /\ lock = Unlocked
    /\ connection = IdleConnection
    /\ threads = NoThreads

CallScoreBand ==
    \E score \in GridValues, review \in GridValues, block \in GridValues :
        /\ call' = [fn |-> "score_band", args |-> <<score, review, block>>,
                    result |-> <<score_band(score, review, block)>>]
        /\ UNCHANGED <<lock, connection, threads, storage_present, term_scores, feedback, request>>

CallTunedBandThresholds ==
    /\ call = NoCall
    /\ \E dr \in DefaultThresholds, db \in DefaultThresholds, q \in QuantileMappings :
        /\ call' = [fn |-> "tuned_band_thresholds", args |-> <<dr, db, q>>,
                    result |-> tuned_band_thresholds(dr, db, q, TunedMinSamples)]
        /\ UNCHANGED <<lock, connection, threads, storage_present, term_scores, feedback, request>>

ReturnFromCall ==
    /\ call # NoCall
    /\ call' = NoCall
    /\ UNCHANGED <<lock, connection, threads, storage_present, term_scores, feedback, request>>

NextBands == CallScoreBand \/ CallTunedBandThresholds \/ ReturnFromCall

vars == <<call, storage_present, term_scores, feedback, request,
          lock, connection, threads>>

SpecBands == InitBands /\ [][NextBands]_vars

(***************************************************************************)
(* The service: one client calling score_term, get_term_history and        *)
(* submit_feedback on a ScoreService whose database file may hold rows of  *)
(* earlier runs.                                                           *)
(***************************************************************************)
Str_ex == <<"e", "x">>
Str_Ex_padded == <<" ", "E", "x", " ">>
Str_zz == <<"z", "z">>
Str_bad == <<"b", "a", "d">>
Str_bad_ex == <<"b", "a", "d", " ", "e", "x">>
Str_you_ex == <<"y", "o", "u", " ", "e", "x">>

ScoreTermCall(term, contexts, trend_velocity, persist) ==
    [term |-> term, contexts |-> contexts, locale |-> "en-US",
     trend_velocity |-> trend_velocity, persist |-> persist]

\* the score_term calls the client makes (trend_velocity in thousandths)
ScoreTermCalls ==
    { ScoreTermCall(Str_Ex_padded, <<Str_bad_ex>>, 0, TRUE),
      ScoreTermCall(Str_ex, <<Str_bad_ex>>, 0, FALSE),
      ScoreTermCall(Str_ex, <<Str_you_ex>>, 0, TRUE),
      ScoreTermCall(Str_zz, <<Str_bad_ex>>, 0, TRUE),
      ScoreTermCall(Str_ex, <<>>, 0, TRUE),
      ScoreTermCall(<<"-">>, <<Str_bad_ex>>, 0, FALSE),
      ScoreTermCall(Str_ex, <<Str_bad_ex>>, -2000000, TRUE) }

\* what a labeler says of one context
LabelChoices ==
    { [severity |-> 900, targetedness |-> 800, reclaimed |-> FALSE],
      [severity |-> 100, targetedness |-> 200, reclaimed |-> TRUE] }

\* what labeler.label_batch can do: return one label per context, or raise
LabelBatchOutcomes(contexts) ==
    {Raised("LabelerError")}
    \cup {Returned(labels) : labels \in [1..Len(contexts) -> LabelChoices]}

\* what the eigensolvers can find (numpy.linalg), in thousandths
SolverChoices ==
    { [graph_signal |-> 1000, covariance_eigenvalue |-> 500],
      [graph_signal |-> 999, covariance_eigenvalue |-> 2400] }

\* the k-th score_term call of the earlier runs of the service, the runs
\* that filled the database file
EarlierCall(k) ==
    ScoreTermCall(IF k % 16 = 0 THEN Str_zz ELSE Str_ex,
                  IF k % 7 = 0 THEN <<Str_you_ex>> ELSE <<Str_bad_ex>>,
                  IF k % 5 = 0 THEN 1500 ELSE 0, TRUE)

EarlierLabels(k) ==
    Returned(<<IF k % 3 = 0
               THEN [severity |-> 100, targetedness |-> 200, reclaimed |-> TRUE]
               ELSE IF k % 3 = 1
               THEN [severity |-> 900, targetedness |-> 800, reclaimed |-> FALSE]
               ELSE [severity |-> 500, targetedness |-> 400, reclaimed |-> FALSE]>>)

EarlierSolver(k) ==
    [graph_signal |-> 1000, covariance_eigenvalue |-> 300 * (k % 11)]

\* the wall clock of the k-th earlier call, in seconds
EarlierClock(k) == k \div 30

\* term_scores after the k-th call of the earlier runs
AfterEarlierCall(table, k) ==
    LET c == EarlierCall(k)
    IN  score_term(FusionEngine, TRUE, table, EarlierClock(k),
                   c.term, c.contexts, c.locale, c.trend_velocity,
                   c.persist, EarlierLabels(k), EarlierSolver(k)).table

\* the numbers of rows the database file can hold when the run starts;
\* a long table holds more rows of a term than a history returns
EarlierSizes == {0, 39, 79}
LongSizes == {0, 39, 215}

\* rows that the run adds to a table
MaxNewRows == 1
MaxNewFeedback == 1

RowsAtStart(table) ==
    LET sizes == {n \in EarlierSizes \cup LongSizes : n <= Len(table)}
    IN  CHOOSE n \in sizes : \A m \in sizes : m <= n

\* CURRENT_TIMESTAMP of an INSERT: the wall clock does not run backwards,
\* so it is the time of the latest row or later
LatestTimestamp(table) ==
    IF table = <<>> THEN 0 ELSE table[Len(table)].created_at

Timestamps ==
    LET latest == Max2(LatestTimestamp(term_scores), LatestTimestamp(feedback))
    IN  {latest, latest + 1}

\* before the run starts no call of it has returned
EarlierRuns == [fn |-> "earlier runs", args |-> <<>>, result |-> <<>>]

Init ==
    /\ call = EarlierRuns
    /\ storage_present \in BOOLEAN
    /\ term_scores = <<>>
    /\ feedback = <<>>
    /\ request = NoRequest
    /\ lock = Unlocked
    /\ connection = IdleConnection
    /\ threads = NoThreads

\* an earlier run of the service serves its next call
EarlierRun ==
    /\ call = EarlierRuns
    /\ storage_present
    /\ \E n \in EarlierSizes : Len(term_scores) < n
    /\ term_scores' = AfterEarlierCall(term_scores, Len(term_scores) + 1)
    /\ UNCHANGED <<lock, connection, threads, call, storage_present, feedback, request>>

\* the run starts on the database file as the earlier runs left it
Start ==
    /\ call = EarlierRuns
    /\ Len(term_scores) \in EarlierSizes
    /\ call' = NoCall
    /\ UNCHANGED <<lock, connection, threads, storage_present, term_scores, feedback, request>>

\* score_term is called
ReceiveScoreTerm ==
    /\ call # EarlierRuns
    /\ request.pc = "idle"
    /\ \E c \in ScoreTermCalls :
        /\ should_persist(c.persist, storage_present)
             => Len(term_scores) - RowsAtStart(term_scores) < MaxNewRows
        /\ request' = score_term_enter(c.term, c.contexts, c.locale,
                                       c.trend_velocity, c.persist)
    /\ call' = NoCall
    /\ UNCHANGED <<lock, connection, threads, storage_present, term_scores, feedback>>

LabelContexts ==
    /\ request.pc = "label"
    /\ \E labelled \in LabelBatchOutcomes(request.contexts) :
        request' = score_term_label(request, labelled)
    /\ UNCHANGED <<lock, connection, threads, call, storage_present, term_scores, feedback>>

ComputeSpectral ==
    /\ request.pc = "spectral"
    /\ \E solver \in SolverChoices :
        request' = score_term_spectral(request, solver)
    /\ UNCHANGED <<lock, connection, threads, call, storage_present, term_scores, feedback>>

ReadQuantiles ==
    /\ request.pc = "quantiles"
    /\ request' = score_term_quantiles(request, FusionEngine,
                                       storage_present, term_scores)
    /\ UNCHANGED <<lock, connection, threads, call, storage_present, term_scores, feedback>>

Fuse ==
    /\ request.pc = "fuse"
    /\ request' = score_term_fuse(request, FusionEngine)
    /\ UNCHANGED <<lock, connection, threads, call, storage_present, term_scores, feedback>>

Persist ==
    /\ request.pc = "persist"
    /\ \E now \in Timestamps :
        term_scores' = score_term_persist(request, storage_present,
                                          term_scores, now)
    /\ request' = [request EXCEPT !.pc = "done"]
    /\ UNCHANGED <<lock, connection, threads, call, storage_present, feedback>>

\* a statement on the database raises (sqlite3.Error); the INSERT of
\* save_term_score is one statement, it adds its row or nothing
StorageFails ==
    /\ storage_present
    /\ \/ request.pc = "quantiles"
       \/ request.pc = "persist" /\ request.persist
    /\ request' = Fails(request, "sqlite3.Error")
    /\ UNCHANGED <<lock, connection, threads, call, storage_present, term_scores, feedback>>

\* score_term returns its response or raises
ReturnScoreTerm ==
    /\ request.pc \in {"done", "failed"}
    /\ call' = [fn |-> "score_term",
                args |-> <<request.term, request.contexts, request.locale,
                           request.trend_velocity, request.persist>>,
                result |-> IF request.pc = "done"
                           THEN Returned(TheValue(request.response))
                           ELSE Raised(request.error)]
    /\ request' = NoRequest
    /\ UNCHANGED <<lock, connection, threads, storage_present, term_scores, feedback>>

\* the process dies in the middle of a request and is started again
Abandon ==
    /\ request.pc \notin {"idle", "done", "failed"}
    /\ request' = NoRequest
    /\ call' = NoCall
    /\ UNCHANGED <<lock, connection, threads, storage_present, term_scores, feedback>>

Next ==
    \/ EarlierRun
    \/ Start
    \/ ReceiveScoreTerm
    \/ LabelContexts
    \/ ComputeSpectral
    \/ ReadQuantiles
    \/ Fuse
    \/ Persist
    \/ StorageFails
    \/ ReturnScoreTerm
    \/ Abandon

Spec == Init /\ [][Next]_vars

(***************************************************************************)
(* The store seen through whole calls: a client calls score_term,          *)
(* get_term_history and submit_feedback one after the other, on a          *)
(* database file that may hold more rows than a history may return.        *)
(***************************************************************************)
EarlierRunLong ==
    /\ call = EarlierRuns
    /\ storage_present
    /\ \E n \in LongSizes : Len(term_scores) < n
    /\ term_scores' = AfterEarlierCall(term_scores, Len(term_scores) + 1)
    /\ UNCHANGED <<lock, connection, threads, call, storage_present, feedback, request>>

StartLong ==
    /\ call = EarlierRuns
    /\ Len(term_scores) \in LongSizes
    /\ call' = NoCall
    /\ UNCHANGED <<lock, connection, threads, storage_present, term_scores, feedback, request>>

\* the score_term calls of the client
StoreScoreTermCalls ==
    { ScoreTermCall(Str_Ex_padded, <<Str_bad_ex>>, 0, TRUE),
      ScoreTermCall(Str_zz, <<Str_bad_ex>>, 0, TRUE),
      ScoreTermCall(Str_ex, <<Str_bad_ex>>, 0, FALSE) }

StoreLabels ==
    Returned(<<[severity |-> 900, targetedness |-> 800, reclaimed |-> FALSE]>>)
StoreSolver == [graph_signal |-> 1000, covariance_eigenvalue |-> 500]

HistoryTerms == {Str_Ex_padded, Str_zz, Str_bad}
HistoryLimits == {-1, 2, 200, 201}

FeedbackRequests ==
    { [term |-> Str_Ex_padded, locale |-> "en-US",
       feedback_type |-> "false_positive", proposed_band |-> Some("monitor"),
       proposed_score |-> Some(100), notes |-> ""] }

ScoreTermCompletes ==
    /\ call = NoCall
    /\ \E c \in StoreScoreTermCalls, now \in Timestamps :
        /\ should_persist(c.persist, storage_present)
             => Len(term_scores) - RowsAtStart(term_scores) < MaxNewRows
        /\ LET done == score_term(FusionEngine, storage_present, term_scores, now,
                                  c.term, c.contexts, c.locale, c.trend_velocity,
                                  c.persist, StoreLabels, StoreSolver)
           IN  /\ term_scores' = done.table
               /\ call' = [fn |-> "score_term",
                           args |-> <<c.term, c.contexts, c.locale,
                                      c.trend_velocity, c.persist>>,
                           result |-> IF done.request.pc = "done"
                                      THEN Returned(TheValue(done.request.response))
                                      ELSE Raised(done.request.error)]
    /\ UNCHANGED <<lock, connection, threads, storage_present, feedback, request>>

GetTermHistory ==
    /\ call = NoCall
    /\ \E term \in HistoryTerms, limit \in HistoryLimits :
        call' = [fn |-> "get_term_history", args |-> <<term, limit>>,
                 result |-> Returned(get_term_history(storage_present,
                                                      term_scores, term, limit))]
    /\ UNCHANGED <<lock, connection, threads, storage_present, term_scores, feedback, request>>

SubmitFeedback ==
    /\ call = NoCall
    /\ storage_present => Len(feedback) < MaxNewFeedback
    /\ \E payload \in FeedbackRequests, now \in Timestamps :
        LET done == submit_feedback(storage_present, feedback, payload, now)
        IN  /\ call' = [fn |-> "submit_feedback", args |-> <<payload>>,
                        result |-> done.outcome,
                        status_code |-> feedback_status_code(done.outcome)]
            /\ feedback' = done.table
    /\ UNCHANGED <<lock, connection, threads, storage_present, term_scores, request>>

\* the client has read the result of its call
ResultRead ==
    /\ call \notin {NoCall, EarlierRuns}
    /\ call' = NoCall
    /\ UNCHANGED <<lock, connection, threads, storage_present, term_scores, feedback, request>>

NextStore ==
    \/ EarlierRunLong
    \/ StartLong
    \/ ScoreTermCompletes
    \/ GetTermHistory
    \/ SubmitFeedback
    \/ ResultRead

SpecStore == Init /\ [][NextStore]_vars

(***************************************************************************)
(* score_text called on texts and candidate lists.                         *)
(***************************************************************************)
Str_blank == <<" ">>
Str_dash == <<"-">>
Str_ex_bad_hyphen == <<"e", "x", "-", "b", "a", "d">>
Text_two_sentences ==
    <<"b", "a", "d", " ", "E", "x", ".", " ", "y", "o", "u", " ", "z", "z", " ",
      "e", "x", "!">>
Text_hyphenated == <<"e", "x", "-", "b", "a", "d", " ", "z", "z">>
Text_one_word == <<"e", "x">>

Texts == {Text_two_sentences, Text_hyphenated, Text_one_word}

CandidateLists ==
    { <<Str_zz, Str_Ex_padded, Str_ex>>,
      <<Str_bad_ex, Str_dash, Str_blank>>,
      <<Str_ex_bad_hyphen, Str_ex, Str_bad>>,
      <<Str_zz, Str_bad>>,
      <<Str_ex>>,
      <<Str_blank>>,
      <<Str_dash>> }

InitText ==
    /\ call = NoCall
    /\ storage_present \in BOOLEAN
    /\ term_scores = <<>>
    /\ feedback = <<>>
    /\ request = NoRequest
    /\ lock = Unlocked
    /\ connection = IdleConnection
    /\ threads = NoThreads

ScoreText ==
    /\ call = NoCall
    /\ \E text \in Texts, candidate_terms \in CandidateLists, persist \in BOOLEAN,
          label \in LabelChoices, now \in Timestamps :
        /\ should_persist(persist, storage_present) => Len(term_scores) < MaxNewRows
        /\ LET done == score_text(FusionEngine, storage_present, term_scores, now,
                                  text, candidate_terms, "en-US", persist,
                                  label, StoreSolver)
           IN  /\ call' = [fn |-> "score_text",
                           args |-> <<text, candidate_terms, "en-US", persist>>,
                           result |-> done.outcome]
               /\ term_scores' = done.table
    /\ UNCHANGED <<lock, connection, threads, storage_present, feedback, request>>

NextText == ScoreText \/ ResultRead

SpecText == InitText /\ [][NextText]_vars


(***************************************************************************)
(* Claims about score_band and tuned_band_thresholds (under SpecBands).    *)
(***************************************************************************)
IsScoreBandCall(c) == c.fn = "score_band"
IsTunedCall(c) == c.fn = "tuned_band_thresholds"

\* The quantile mapping of a tuned_band_thresholds call is one that tunes:
\* present, sample_count >= 80 and both score quantiles present.
TunedCallHasHistory(c) ==
    /\ c.args[3] # None
    /\ LET mapping == TheValue(c.args[3])
       IN  /\ {"sample_count", "score_p70", "score_p90"} \subseteq DOMAIN mapping
           /\ mapping["sample_count"] >= 80 * 1000

\* The blended and clamped pair as section 4.6 of the specification words it.
BlendedPair(c) ==
    LET mapping == TheValue(c.args[3])
        r == clamp((7 * c.args[1] + 3 * mapping["score_p70"]) \div 10, 200, 750)
        b_candidate == (7 * c.args[2] + 3 * mapping["score_p90"]) \div 10
    IN  <<r, clamp(Max2(b_candidate, r + 80), r + 80, 950)>>

\* C3: score_band returns block iff score >= block_threshold, otherwise
\* review iff score >= review_threshold, otherwise monitor; and between two
\* calls with the same thresholds, a score that is not lower never gets a
\* lower band (monitor < review < block).
C3_ScoreBandOrder ==
    [][ IsScoreBandCall(call') =>
          LET score == call'.args[1]
              review == call'.args[2]
              block == call'.args[3]
              band == call'.result[1]
          IN  /\ (band = "block") <=> (score >= block)
              /\ (band = "review") <=> (score < block /\ score >= review)
              /\ (band = "monitor") <=> (score < block /\ score < review)
              /\ ( /\ IsScoreBandCall(call)
                   /\ call.args[2] = review /\ call.args[3] = block
                   /\ call.args[1] <= score )
                 => BandRank(call.result[1]) <= BandRank(band)
      ]_vars

\* C3 witness: a call answered review although the review threshold lies
\* above the score's neighbours on the grid (score = review threshold).
C3_Witness ==
    /\ IsScoreBandCall(call)
    /\ call.result[1] = "review"
    /\ call.args[1] = call.args[2]

\* C4: with sample_count >= 80 and both score quantiles present, the pair
\* returned satisfies 0.2 <= review <= 0.75 and review + 0.08 <= block <= 0.95.
C4_TunedThresholdsInRange ==
    (IsTunedCall(call) /\ TunedCallHasHistory(call)) =>
        /\ 200 <= call.result[1] /\ call.result[1] <= 750
        /\ call.result[1] + 80 <= call.result[2]
        /\ call.result[2] <= 950

\* C4 witness: a tuned call in which the 0.08 gap is what decides block
\* (the blended candidate lies below review + 0.08).
C4_Witness ==
    /\ IsTunedCall(call) /\ TunedCallHasHistory(call)
    /\ call.result[2] = call.result[1] + 80
    /\ (7 * call.args[2] + 3 * TheValue(call.args[3])["score_p90"]) \div 10
         < call.result[1] + 80

\* C5: the defaults come back unchanged when the mapping is absent, its
\* sample_count is missing or below 80, or a score quantile is missing; in
\* every other case the blended and clamped pair comes back.
C5_DefaultsUnlessHistory ==
    IsTunedCall(call) =>
        IF TunedCallHasHistory(call)
        THEN call.result = BlendedPair(call)
        ELSE call.result = <<call.args[1], call.args[2]>>

\* C5 witness: a mapping with both quantiles and sample_count 79.5 (below
\* 80, not a whole number) leaves the defaults, which differ from the blend.
C5_Witness ==
    /\ IsTunedCall(call)
    /\ call.args[3] # None
    /\ DOMAIN TheValue(call.args[3]) = {"sample_count", "score_p70", "score_p90"}
    /\ TheValue(call.args[3])["sample_count"] = 79500
    /\ call.result = <<call.args[1], call.args[2]>>
    /\ call.result # BlendedPair(call)

(***************************************************************************)
(* Claims about score_term (under Spec).                                   *)
(***************************************************************************)
Done == request.pc = "done"
Response == TheValue(request.response)

\* Sub-sequence containment as the specification words it: some contiguous
\* window of tokens equals part element-wise; an empty part is not contained.
ContainsWindow(tokens, part) ==
    /\ part # <<>>
    /\ \E first \in 1..Len(tokens) :
        /\ first + Len(part) - 1 <= Len(tokens)
        /\ \A k \in 1..Len(part) : tokens[first + k - 1] = part[k]

TermFoundInSomeContext(term, contexts) ==
    \E i \in 1..Len(contexts) :
        ContainsWindow(tokenize(contexts[i]), tokenize(normalize_term(term)))

\* C1: the warnings of a score_term response are exactly the term-absent
\* warning when no context contains the term's tokens contiguously, exactly
\* the no-graph-signal warning when the term is found and eigen_graph <= 0,
\* and empty when the term is found and eigen_graph > 0; the two warnings
\* never appear together.
C1_WarningsDetermined ==
    Done =>
        LET found == TermFoundInSomeContext(request.term, request.contexts)
            warnings == Response.warnings
        IN  /\ ~found => warnings = <<TermAbsentWarning>>
            /\ found /\ Response.eigen_graph <= 0
                 => warnings = <<NoGraphSignalWarning>>
            /\ found /\ Response.eigen_graph > 0 => warnings = <<>>
            /\ ~(\E i, j \in 1..Len(warnings) :
                    /\ warnings[i] = TermAbsentWarning
                    /\ warnings[j] = NoGraphSignalWarning)

C1_Witness ==
    /\ Done
    /\ TermFoundInSomeContext(request.term, request.contexts)
    /\ Response.eigen_graph <= 0
    /\ Response.warnings = <<NoGraphSignalWarning>>

\* the band of a score under a pair of thresholds
BandUnder(score, thresholds) ==
    IF score >= thresholds[2] THEN "block"
    ELSE IF score >= thresholds[1] THEN "review"
    ELSE "monitor"

\* the quantile snapshot of the table as it was when the request read it
SnapshotRead ==
    IF request.rows_read = None THEN None
    ELSE get_feature_quantiles(SubSeq(term_scores, 1, TheValue(request.rows_read)),
                               DefaultSampleLimit, DefaultMinSamples)

\* C2: the band of every score_term response is the band of the fused score
\* under the thresholds that tuned_band_thresholds returns for the quantile
\* snapshot read in that request, also when the band computed inside fuse
\* from the engine's default thresholds differs.
C2_BandFromTunedThresholds ==
    Done =>
        /\ request.feature_quantiles = SnapshotRead
        /\ Response.band =
              BandUnder(Response.score,
                        tuned_band_thresholds(FusionEngine.review_threshold,
                                              FusionEngine.block_threshold,
                                              SnapshotRead, TunedMinSamples))

C2_Witness ==
    /\ Done
    /\ TheValue(request.fusion).band # Response.band
    /\ Response.band = BandUnder(Response.score,
                                 <<request.review_threshold, request.block_threshold>>)

\* C6: the last stretch of a completing score_term call adds exactly one row
\* to term_scores when persist is true and storage is present, and none
\* otherwise; the row carries the term, score, confidence and band of the
\* response; no other stretch of the call changes the table.
C6_PersistFrame ==
    [][ /\ (request.pc = "persist" /\ request'.pc = "done") =>
            IF request.persist /\ storage_present
            THEN /\ Len(term_scores') = Len(term_scores) + 1
                 /\ SubSeq(term_scores', 1, Len(term_scores)) = term_scores
                 /\ LET row == term_scores'[Len(term_scores')]
                        response == TheValue(request'.response)
                    IN  /\ row.term = response.term
                        /\ row.score = response.score
                        /\ row.confidence = response.confidence
                        /\ row.band = response.band
            ELSE term_scores' = term_scores
        /\ request.pc \in {"label", "spectral", "quantiles", "fuse", "done"}
            => term_scores' = term_scores
      ]_vars

C6_Witness ==
    /\ Done
    /\ request.persist
    /\ storage_present
    /\ Len(term_scores) = TheValue(request.rows_read) + 1
    /\ term_scores[Len(term_scores)].term = Response.term
    /\ term_scores[Len(term_scores)].band = Response.band

\* C7: in every score_term request the quantiles have been read, from the
\* table as it is without the request's row, before fusion runs; the only
\* step of a request that changes term_scores is its persist, which comes
\* after fusion and after which the request only returns; a request that
\* fails or is abandoned before its persist leaves term_scores unchanged.
C7_ReadThenFuseThenPersist ==
    [][ /\ request.pc = "fuse" =>
            request.feature_quantiles =
                IF storage_present
                THEN get_feature_quantiles(term_scores, DefaultSampleLimit,
                                           DefaultMinSamples)
                ELSE None
        /\ (term_scores' # term_scores /\ call # EarlierRuns) =>
            /\ request.pc = "persist"
            /\ request'.pc = "done"
            /\ request.fusion # None
            /\ request.rows_read = Some(Len(term_scores))
        /\ request.pc = "done" => term_scores' = term_scores
        /\ ( /\ request.pc \in {"label", "spectral", "quantiles", "fuse"}
             /\ request'.pc \in {"failed", "idle"} )
            => term_scores' = term_scores
        /\ request.pc = "failed" => term_scores' = term_scores
      ]_vars

C7_Witness ==
    /\ request.pc = "failed"
    /\ request.error = "OverflowError"
    /\ request.persist
    /\ request.feature_quantiles # None
    /\ request.rows_read = Some(Len(term_scores))

(***************************************************************************)
(* Claims about score_text (under SpecText).                               *)
(***************************************************************************)
\* C8: the terms of score_text's results are, in this order, the ascending
\* list of the distinct normalized forms of the non-blank candidates whose
\* tokens occur contiguously in the text's tokens, and terms_found is the
\* length of results.
C8_TextResults ==
    (call.fn = "score_text" /\ call.result.raised = "") =>
        LET text == call.args[1]
            candidate_terms == call.args[2]
            reply == call.result.value
            terms == [i \in 1..Len(reply.results) |-> reply.results[i].term]
            occurring ==
                { normalize_term(candidate_terms[i]) :
                    i \in { j \in 1..Len(candidate_terms) :
                              /\ strip(candidate_terms[j]) # <<>>
                              /\ ContainsWindow(tokenize(text),
                                                tokenize(candidate_terms[j])) } }
        IN  /\ {terms[i] : i \in 1..Len(terms)} = occurring
            /\ \A i \in 1..(Len(terms) - 1) : StrLess(terms[i], terms[i + 1])
            /\ reply.terms_found = Len(reply.results)

C8_Witness ==
    /\ call.fn = "score_text"
    /\ call.result.raised = ""
    /\ call.args[2] = <<Str_zz, Str_Ex_padded, Str_ex>>
    /\ call.result.value.terms_found = 2
    /\ call.result.value.results[1].term = Str_ex
    /\ call.result.value.results[2].term = Str_zz

(***************************************************************************)
(* Claims about the store (under SpecStore).                               *)
(***************************************************************************)
PersistedScoreTermReturned ==
    /\ call.fn = "score_term"
    /\ call.result.raised = ""
    /\ call.args[5]
    /\ storage_present

\* C9: get_term_history(term, limit) returns only rows stored under the
\* normalized term, at most clamp(limit, 1, 200) of them, a row persisted
\* later before every row persisted earlier, with count the length of the
\* history; right after a persisted score_term the first history item of
\* its term is the row of that request.
C9_HistoryNewestFirst ==
    /\ call.fn = "get_term_history" =>
        LET reply == call.result.value
            history == reply.history
        IN  /\ reply.count = Len(history)
            /\ Len(history) <= Max2(1, Min2(call.args[2], 200))
            /\ \A i \in 1..Len(history) :
                /\ history[i].term = normalize_term(call.args[1])
                /\ history[i].id \in 1..Len(term_scores)
                /\ term_scores[history[i].id].term = history[i].term
                /\ term_scores[history[i].id].score = history[i].score
            /\ \A i \in 1..(Len(history) - 1) : history[i].id > history[i + 1].id
    /\ PersistedScoreTermReturned =>
        \A limit \in HistoryLimits :
            LET reply == get_term_history(storage_present, term_scores,
                                          call.args[1], limit)
            IN  /\ reply.count >= 1
                /\ reply.history[1].id = Len(term_scores)
                /\ reply.history[1].term = call.result.value.term
                /\ reply.history[1].score = call.result.value.score
                /\ reply.history[1].band = call.result.value.band

C9_Witness ==
    /\ call.fn = "get_term_history"
    /\ call.args[2] = 201
    /\ Len(call.result.value.history) = 200
    /\ Len(term_scores) > 215
    /\ call.result.value.history[1].id = Len(term_scores)
    /\ call.result.value.history[1].created_at
         = call.result.value.history[2].created_at

\* C10: without storage get_term_history returns an empty history with
\* count 0 and no error, and submit_feedback fails with RuntimeError (503
\* at the endpoint) and records nothing; with storage submit_feedback adds
\* one feedback row and returns status accepted with that row's id >= 1.
C10_StorageAbsent ==
    [][ /\ (call' # call /\ call'.fn = "get_term_history" /\ ~storage_present) =>
            /\ call'.result.raised = ""
            /\ call'.result.value.count = 0
            /\ call'.result.value.history = <<>>
            /\ call'.result.value.term = normalize_term(call'.args[1])
        /\ (call' # call /\ call'.fn = "submit_feedback") =>
            IF storage_present
            THEN /\ call'.result.raised = ""
                 /\ call'.result.value.status = "accepted"
                 /\ call'.result.value.feedback_id >= 1
                 /\ Len(feedback') = Len(feedback) + 1
                 /\ SubSeq(feedback', 1, Len(feedback)) = feedback
                 /\ feedback'[Len(feedback')].id = call'.result.value.feedback_id
            ELSE /\ call'.result.raised = "RuntimeError"
                 /\ call'.status_code = 503
                 /\ feedback' = feedback
      ]_vars

C10_Witness ==
    /\ call.fn = "submit_feedback"
    /\ ~storage_present
    /\ call.result.raised = "RuntimeError"
    /\ call.status_code = 503
    /\ feedback = <<>>

(***************************************************************************)
(* storage.py under concurrent requests (SpecLock).  Every method of       *)
(* SQLiteStore runs its statements inside `with self._lock`; a request     *)
(* thread goes through acquire, execute, (commit,) release.  term_scores   *)
(* and feedback are the rows the shared connection sees, the rows of its   *)
(* open transaction included.                                              *)
(***************************************************************************)
\* the response a concurrent score_term request saves
StoredScore ==
    TheValue(score_term(FusionEngine, FALSE, <<>>, 0, Str_ex, <<Str_bad_ex>>,
                        "en-US", 0, FALSE, StoreLabels, StoreSolver).request.response)

\* the calls the request threads make on the store
StoreCalls ==
    { [op |-> "save_term_score", args |-> <<StoredScore>>],
      [op |-> "get_feature_quantiles", args |-> <<>>],
      [op |-> "get_term_history", args |-> <<Str_ex, 2>>] }
    \cup { [op |-> "save_feedback", args |-> <<f>>] : f \in FeedbackRequests }

IsWrite(op) == op \in {"save_term_score", "save_feedback"}

\* the threads that are about to insert a row of the table op writes
Inserting(op) ==
    {t \in Threads : threads[t].op = op
                     /\ threads[t].pc \in {"acquire", "execute", "executing"}}

\* a request thread calls a method of the store
CallStore(t) ==
    /\ call = NoCall
    /\ storage_present
    /\ threads[t].pc = "idle"
    /\ \E c \in StoreCalls :
        /\ c.op = "save_term_score" =>
             Len(term_scores) - RowsAtStart(term_scores)
                + Cardinality(Inserting(c.op)) < MaxNewRows
        /\ c.op = "save_feedback" =>
             Len(feedback) + Cardinality(Inserting(c.op)) < MaxNewFeedback
        /\ threads' = [threads EXCEPT ![t] =
                          [pc |-> "acquire", op |-> c.op, args |-> c.args,
                           result |-> None]]
    /\ UNCHANGED <<call, storage_present, term_scores, feedback, request,
                   lock, connection>>

\* `with self._lock:` is entered
AcquireLock(t) ==
    /\ threads[t].pc = "acquire"
    /\ can_acquire(lock)
    /\ lock' = t
    /\ threads' = [threads EXCEPT ![t].pc = "execute"]
    /\ UNCHANGED <<call, storage_present, term_scores, feedback, request,
                   connection>>

\* self._connection.execute(...) starts
BeginStatement(t) ==
    /\ threads[t].pc = "execute"
    /\ connection' = [connection EXCEPT !.executing = @ \cup {t}]
    /\ threads' = [threads EXCEPT ![t].pc = "executing"]
    /\ UNCHANGED <<call, storage_present, term_scores, feedback, request, lock>>

\* what a SELECT fetched: the value the method computes from the rows, and
\* how many of the rows it saw were in an open transaction
Fetched(value, uncommitted_seen) ==
    Some([raised |-> "", value |-> value, uncommitted_seen |-> uncommitted_seen])

\* the statement ends: an INSERT has put its row into the connection's
\* transaction, a SELECT has fetched the rows the connection sees
EndStatement(t) ==
    /\ threads[t].pc = "executing"
    /\ LET op == threads[t].op
           args == threads[t].args
       IN  \/ /\ op = "save_term_score"
              /\ \E now \in Timestamps :
                    term_scores' = save_term_score(term_scores, args[1], now)
              /\ connection' = [connection EXCEPT
                                  !.executing = @ \ {t},
                                  !.uncommitted_scores = @ + 1]
              /\ threads' = [threads EXCEPT
                               ![t].pc = "commit",
                               ![t].result = Some(Returned(NextRowId(term_scores)))]
              /\ UNCHANGED feedback
           \/ /\ op = "save_feedback"
              /\ \E now \in Timestamps :
                    feedback' = save_feedback(feedback, args[1], now)
              /\ connection' = [connection EXCEPT
                                  !.executing = @ \ {t},
                                  !.uncommitted_feedback = @ + 1]
              /\ threads' = [threads EXCEPT
                               ![t].pc = "commit",
                               ![t].result = Some(Returned(NextRowId(feedback)))]
              /\ UNCHANGED term_scores
           \/ /\ op = "get_feature_quantiles"
              /\ connection' = [connection EXCEPT !.executing = @ \ {t}]
              /\ threads' = [threads EXCEPT
                               ![t].pc = "release",
                               ![t].result =
                                   Fetched(get_feature_quantiles(
                                               term_scores, DefaultSampleLimit,
                                               DefaultMinSamples),
                                           connection.uncommitted_scores)]
              /\ UNCHANGED <<term_scores, feedback>>
           \/ /\ op = "get_term_history"
              /\ connection' = [connection EXCEPT !.executing = @ \ {t}]
              /\ threads' = [threads EXCEPT
                               ![t].pc = "release",
                               ![t].result =
                                   Fetched(store_get_term_history(
                                               term_scores, args[1], args[2]),
                                           connection.uncommitted_scores)]
              /\ UNCHANGED <<term_scores, feedback>>
    /\ UNCHANGED <<call, storage_present, request, lock>>

\* the statement raises sqlite3.Error and has no effect
StatementFails(t) ==
    /\ threads[t].pc = "executing"
    /\ connection' = [connection EXCEPT !.executing = @ \ {t}]
    /\ threads' = [threads EXCEPT
                     ![t].pc = "release",
                     ![t].result = Some(Raised("sqlite3.Error"))]
    /\ UNCHANGED <<call, storage_present, term_scores, feedback, request, lock>>

\* self._connection.commit(): the rows of the connection's transaction,
\* whoever inserted them, are committed
Commit(t) ==
    /\ threads[t].pc = "commit"
    /\ connection' = [connection EXCEPT
                        !.uncommitted_scores = 0,
                        !.uncommitted_feedback = 0]
    /\ threads' = [threads EXCEPT ![t].pc = "release"]
    /\ UNCHANGED <<call, storage_present, term_scores, feedback, request, lock>>

\* the `with` block is left, by its end or by an exception, and the
\* method returns to the request that called it
ReleaseLock(t) ==
    /\ threads[t].pc = "release"
    /\ lock' = Unlocked
    /\ threads' = [threads EXCEPT ![t] = IdleThread]
    /\ UNCHANGED <<call, storage_present, term_scores, feedback, request,
                   connection>>

\* the requests start on a database file that holds one row less than a
\* quantile snapshot needs
StartShared ==
    /\ call = EarlierRuns
    /\ Len(term_scores) = DefaultMinSamples - 1
    /\ call' = NoCall
    /\ UNCHANGED <<storage_present, term_scores, feedback, request,
                   lock, connection, threads>>

NextLock ==
    \/ EarlierRun
    \/ StartShared
    \/ \E t \in Threads : CallStore(t)
    \/ \E t \in Threads : AcquireLock(t)
    \/ \E t \in Threads : BeginStatement(t)
    \/ \E t \in Threads : EndStatement(t)
    \/ \E t \in Threads : StatementFails(t)
    \/ \E t \in Threads : Commit(t)
    \/ \E t \in Threads : ReleaseLock(t)

SpecLock == Init /\ [][NextLock]_vars

(***************************************************************************)
(* Claims about the store under concurrent requests (under SpecLock).      *)
(***************************************************************************)
\* the thread is inside a method's `with self._lock` block
InsideLock(t) == threads[t].pc \in {"execute", "executing", "commit", "release"}

\* the thread's write is under way: its INSERT runs or awaits its commit
Writing(t) ==
    IsWrite(threads[t].op) /\ threads[t].pc \in {"executing", "commit"}

\* the thread holds the rows of a read
HasRead(t) ==
    /\ ~IsWrite(threads[t].op)
    /\ threads[t].result # None
    /\ TheValue(threads[t].result).raised = ""

\* C11: under every interleaving of requests that share the store, at most
\* one thread at a time executes a statement on the connection; while a
\* write is under way no other thread is inside a storage block, neither
\* writing nor reading; and every quantile or history read saw committed
\* rows only.
C11_StoreSerialized ==
    /\ Cardinality(connection.executing) <= 1
    /\ \A t \in Threads : InsideLock(t) => lock = t
    /\ \A w \in Threads, u \in Threads :
          (w # u /\ Writing(w)) => ~InsideLock(u)
    /\ \A t \in Threads :
          HasRead(t) => TheValue(threads[t].result).uncommitted_seen = 0

C11_Witness ==
    \E w \in Threads, r \in Threads :
        /\ w # r
        /\ threads[w].op = "save_term_score"
        /\ threads[w].pc = "commit"
        /\ connection.uncommitted_scores = 1
        /\ threads[r].op = "get_feature_quantiles"
        /\ threads[r].pc = "acquire"
        /\ Len(term_scores) >= DefaultMinSamples

(***************************************************************************)
(* scoring.py: score_term invoked twice on the same inputs, with other     *)
(* requests in between (SpecReplay).                                       *)
(***************************************************************************)
\* the quantile snapshot a request reads from the table
SnapshotOf(has_storage, table) ==
    IF has_storage
    THEN get_feature_quantiles(table, DefaultSampleLimit, DefaultMinSamples)
    ELSE None

\* what the caller of a completed score_term gets
OutcomeOf(req) ==
    IF req.pc = "done" THEN Returned(TheValue(req.response))
    ELSE Raised(req.error)

\* the calls that are made twice
ReplayCalls ==
    StoreScoreTermCalls
    \cup {ScoreTermCall(Str_ex, <<Str_bad_ex>>, -2000000, TRUE)}

\* score_term is invoked; its inputs, the labeler's outputs, the
\* eigenvalues the numerical library finds and the snapshot are noted
FirstInvocation ==
    /\ call = NoCall
    /\ \E c \in ReplayCalls, solver \in SolverChoices, now \in Timestamps :
      \E labelled \in LabelBatchOutcomes(c.contexts) :
        /\ should_persist(c.persist, storage_present)
             => Len(term_scores) - RowsAtStart(term_scores) < MaxNewRows
        /\ LET done == score_term(FusionEngine, storage_present, term_scores, now,
                                  c.term, c.contexts, c.locale, c.trend_velocity,
                                  c.persist, labelled, solver)
           IN  /\ term_scores' = done.table
               /\ call' = [fn |-> "score_term",
                           args |-> <<c.term, c.contexts, c.locale,
                                      c.trend_velocity, c.persist>>,
                           labelled |-> labelled,
                           solver |-> solver,
                           rows |-> Len(term_scores),
                           snapshot |-> SnapshotOf(storage_present, term_scores),
                           result |-> OutcomeOf(done.request)]
    /\ UNCHANGED <<storage_present, feedback, request, lock, connection, threads>>

\* another request is served between the two invocations and saves its row
OtherRequest ==
    /\ call.fn = "score_term"
    /\ storage_present
    /\ Len(term_scores) - RowsAtStart(term_scores) < MaxNewRows
    /\ term_scores' = AfterEarlierCall(term_scores, Len(term_scores) + 1)
    /\ UNCHANGED <<call, storage_present, feedback, request, lock, connection,
                   threads>>

\* score_term is invoked again with the same term, contexts, locale and
\* trend_velocity; the labeler and the numerical library answer as before
SecondInvocation ==
    /\ call.fn = "score_term"
    /\ \E persist \in BOOLEAN, now \in Timestamps :
        /\ should_persist(persist, storage_present)
             => Len(term_scores) - RowsAtStart(term_scores) < MaxNewRows
        /\ LET done == score_term(FusionEngine, storage_present, term_scores, now,
                                  call.args[1], call.args[2], call.args[3],
                                  call.args[4], persist, call.labelled,
                                  call.solver)
           IN  /\ term_scores' = done.table
               /\ call' = [fn |-> "score_term again",
                           first |-> call,
                           rows |-> Len(term_scores),
                           snapshot |-> SnapshotOf(storage_present, term_scores),
                           result |-> OutcomeOf(done.request)]
    /\ UNCHANGED <<storage_present, feedback, request, lock, connection, threads>>

NextReplay ==
    \/ EarlierRun
    \/ Start
    \/ FirstInvocation
    \/ OtherRequest
    \/ SecondInvocation
    \/ ResultRead

SpecReplay == Init /\ [][NextReplay]_vars

FeatureVectors ==
    [lambda_graph : {0, 300, 2000},
     lambda_ctx : {0, 500},
     severity_mean : {0, 1000},
     targetedness_mean : {0, 1000},
     reclaimed_rate : {0, 1000},
     trend_velocity : {-2000000, -1000, 0, 1000, 2000000},
     sample_size : {1, 20, 50}]

\* fusion.py:85, feature_quantiles: none, a spread-out mapping, and a
\* mapping whose eigen_graph quantiles lie 0.001 apart
FeatureQuantileMappings ==
    { None,
      Some([sample_count |-> 100000,
            eigen_graph_p50 |-> 80, eigen_graph_p90 |-> 320,
            eigen_ctx_p50 |-> 40, eigen_ctx_p90 |-> 220,
            score_p70 |-> 400, score_p90 |-> 700]),
      Some([sample_count |-> 100000,
            eigen_graph_p50 |-> 800, eigen_graph_p90 |-> 801,
            eigen_ctx_p50 |-> 40, eigen_ctx_p90 |-> 220,
            score_p70 |-> 400, score_p90 |-> 700]) }

CallFuse ==
    /\ call = NoCall
    /\ \E features \in FeatureVectors, feature_quantiles \in FeatureQuantileMappings :
        call' = [fn |-> "fuse", args |-> <<features, feature_quantiles>>,
                 result |-> fuse(FusionEngine, features, feature_quantiles)]
    /\ UNCHANGED <<storage_present, term_scores, feedback, request,
                   lock, connection, threads>>

NextFuse == CallFuse \/ ReturnFromCall

SpecFuse == InitBands /\ [][NextFuse]_vars

\* C13: for every feature vector (any real trend_velocity, sample_size >= 1)
\* and every quantile mapping or none, fuse returns normally, with
\* 0 <= score <= 1 and 0 <= confidence <= 1.
C13_FuseReturnsBounded ==
    call.fn = "fuse" =>
        /\ call.result.raised = ""
        /\ call.result.value.score \in 0..1000
        /\ call.result.value.confidence \in 0..1000

\* whenever fuse does return, its score and confidence are within [0, 1]
C13_BoundedWhenReturned ==
    (call.fn = "fuse" /\ call.result.raised = "") =>
        /\ call.result.value.score \in 0..1000
        /\ call.result.value.confidence \in 0..1000

\* fuse raises on a feature vector with a large negative trend_velocity
\* and no quantiles
C13_Witness ==
    /\ call.fn = "fuse"
    /\ call.args[1].trend_velocity = -2000000
    /\ call.args[2] = None
    /\ call.result.raised = "OverflowError"

(***************************************************************************)
(* scoring.py: score_term with a labeler that finds nothing in any context *)
(* (SpecZeroLabels).                                                       *)
(***************************************************************************)
\* a labeler that returns severity 0, targetedness 0, reclaimed false for
\* every context
ZeroLabels(contexts) ==
    Returned([i \in 1..Len(contexts) |->
                 [severity |-> 0, targetedness |-> 0, reclaimed |-> FALSE]])

\* the terms and the non-empty lists of contexts of these calls
ZeroLabelTerms == {Str_ex, Str_Ex_padded, Str_zz, Str_bad}
ZeroLabelContexts == {<<Str_bad_ex>>, <<Str_you_ex>>, <<Str_ex>>}

\* the eigenvalues of these contexts.  A context of two different tokens
\* gives two views on different axes (spectral.py:119-121): the shrunk
\* covariance has 0.5 on its diagonal and 0.65 * 0.5 beside it, largest
\* eigenvalue 0.825 (spectral.py:129-138).  Its graph, when both tokens
\* survive the filter, is one edge: the normalised adjacency has the
\* eigenvalues -1 and 1 and the coverage is 1 - exp(-1/3), signal 0.283
\* (spectral.py:296-302).
TwoTokenSolver == [graph_signal |-> 283, covariance_eigenvalue |-> 825]

ScoreTermZeroLabels ==
    /\ call = NoCall
    /\ \E term \in ZeroLabelTerms, contexts \in ZeroLabelContexts,
          now \in Timestamps :
        LET done == score_term(FusionEngine, storage_present, term_scores, now,
                               term, contexts, "en-US", 0, FALSE,
                               ZeroLabels(contexts), TwoTokenSolver)
        IN  call' = [fn |-> "score_term",
                     args |-> <<term, contexts, "en-US", 0, FALSE>>,
                     thresholds |-> <<done.request.review_threshold,
                                      done.request.block_threshold>>,
                     result |-> OutcomeOf(done.request)]
    /\ UNCHANGED <<storage_present, term_scores, feedback, request,
                   lock, connection, threads>>

NextZeroLabels ==
    \/ EarlierRun
    \/ Start
    \/ ScoreTermZeroLabels
    \/ ResultRead

SpecZeroLabels == Init /\ [][NextZeroLabels]_vars

\* the call ran under the default thresholds of the engine
UnderDefaultThresholds ==
    call.thresholds = <<FusionEngine.review_threshold, FusionEngine.block_threshold>>

\* C14: with a labeler that returns severity 0, targetedness 0 and
\* reclaimed false for every context, score_term (trend_velocity 0, default
\* thresholds) returns score < 0.5 and band monitor, for every term and
\* every non-empty list of contexts.
C14_ZeroLabelsMonitor ==
    (call.fn = "score_term" /\ UnderDefaultThresholds) =>
        /\ call.result.raised = ""
        /\ call.result.value.score < 500
        /\ call.result.value.band = "monitor"

\* the score stays below 0.5 on these calls; it is the band that leaves
\* monitor
C14_ScoreBelowHalf ==
    (call.fn = "score_term" /\ UnderDefaultThresholds) =>
        /\ call.result.raised = ""
        /\ call.result.value.score < 500

\* term "ex", one context "bad ex", no storage: band review
C14_Witness ==
    /\ call.fn = "score_term"
    /\ ~storage_present
    /\ call.args[1] = Str_ex
    /\ call.args[2] = <<Str_bad_ex>>
    /\ UnderDefaultThresholds
    /\ call.result.raised = ""
    /\ call.result.value.eigen_graph = 283
    /\ call.result.value.eigen_ctx = 825
    /\ call.result.value.score \in 350..499
    /\ call.result.value.band = "review"

(***************************************************************************)
(* scoring.py: the FeatureVector score_term hands to fusion                *)
(* (SpecFeatures).                                                         *)
(***************************************************************************)
FeatureTerms == {Str_ex, Str_zz}
FeatureContexts ==
    { <<>>, <<Str_ex>>, <<Str_bad_ex>>, <<Str_bad_ex, Str_you_ex>>,
      <<Str_bad_ex, Str_you_ex, Str_ex>> }

\* labels as the schema admits them (schemas.py:6-12): values in [0, 1]
FeatureLabelChoices ==
    { [severity |-> 0, targetedness |-> 0, reclaimed |-> FALSE],
      [severity |-> 900, targetedness |-> 800, reclaimed |-> FALSE],
      [severity |-> 1000, targetedness |-> 1000, reclaimed |-> TRUE] }

\* what the eigensolvers can find; the largest eigenvalue of a covariance
\* that is zero can come out just below zero
FeatureSolverChoices ==
    SolverChoices \cup {[graph_signal |-> 283, covariance_eigenvalue |-> -1]}

\* score_term runs up to its call of fuse (scoring.py:84-123)
PassFeatures ==
    /\ call = NoCall
    /\ \E term \in FeatureTerms, contexts \in FeatureContexts,
          solver \in FeatureSolverChoices :
        \E labels \in [1..Len(contexts) -> FeatureLabelChoices] :
            LET req == score_term_quantiles(
                           score_term_spectral(
                               score_term_label(
                                   score_term_enter(term, contexts, "en-US", 0, FALSE),
                                   Returned(labels)),
                               solver),
                           FusionEngine, storage_present, term_scores)
            IN  call' = [fn |-> "score_term",
                         args |-> <<term, contexts, "en-US", 0, FALSE>>,
                         solver |-> solver,
                         passed |-> IF req.pc = "fuse"
                                    THEN Some(feature_vector(req)) ELSE None,
                         result |-> IF req.pc = "fuse" THEN Returned(<<>>)
                                    ELSE Raised(req.error)]
    /\ UNCHANGED <<storage_present, term_scores, feedback, request,
                   lock, connection, threads>>

NextFeatures == PassFeatures \/ ReturnFromCall

SpecFeatures == InitBands /\ [][NextFeatures]_vars

\* C15: whenever the labeler returns one label per context with values in
\* [0,1], the FeatureVector that score_term passes to fusion has
\* lambda_graph >= 0, lambda_ctx >= 0, severity_mean, targetedness_mean and
\* reclaimed_rate within [0,1], and sample_size = number of contexts >= 1.
C15_FeatureVectorWellFormed ==
    (call.fn = "score_term" /\ call.passed # None) =>
        LET features == TheValue(call.passed)
        IN  /\ features.lambda_graph >= 0
            /\ features.lambda_ctx >= 0
            /\ features.severity_mean \in 0..1000
            /\ features.targetedness_mean \in 0..1000
            /\ features.reclaimed_rate \in 0..1000
            /\ features.sample_size = Len(call.args[2])
            /\ features.sample_size >= 1

\* three contexts with mixed labels, and a solver that found the largest
\* covariance eigenvalue below zero
C15_Witness ==
    /\ call.fn = "score_term"
    /\ call.passed # None
    /\ Len(call.args[2]) = 3
    /\ call.solver.covariance_eigenvalue < 0
    /\ TheValue(call.passed).lambda_ctx = 0
    /\ TheValue(call.passed).lambda_graph = 283
    /\ TheValue(call.passed).sample_size = 3
    /\ TheValue(call.passed).severity_mean \in 1..999
    /\ TheValue(call.passed).reclaimed_rate \in 1..999

(***************************************************************************)
(* spectral.py: build_cooccurrence_graph and term_graph_spectral_radius on *)
(* the graph it built (SpecGraph).                                         *)
(***************************************************************************)
Str_ow == <<"o", "w">>
Str_we == <<"w", "e">>
Str_a == <<"a">>
Str_d == <<"d">>
Str_you == <<"y", "o", "u">>

GraphContextLists ==
    { <<>>,
      <<Str_bad_ex>>,
      <<JoinWithSpace(<<Str_bad, Str_zz, Str_ow, Str_ex>>)>>,
      <<JoinWithSpace(<<Str_bad, Str_you, Str_ex>>)>>,
      <<JoinWithSpace(<<Str_ex, Str_you, Str_we, Str_a>>)>>,
      <<JoinWithSpace(<<Str_ex, Str_ex>>)>>,
      <<JoinWithSpace(<<Str_bad, Str_ex, Str_bad>>)>>,
      <<Str_you, Str_bad_ex, Str_zz>>,
      <<Str_bad_ex, JoinWithSpace(<<Str_ex, Str_zz>>),
        JoinWithSpace(<<Str_bad, Str_d, Str_ex>>)>> }

GraphWindowSizes == {1, 2, 3, 4, DefaultWindowSize}
GraphMinTokenLengths == {1, DefaultMinTokenLength, 3}
GraphStopwordSets == { {}, DEFAULT_STOPWORDS, {Str_bad} }
GraphTerms == {Str_ex, Str_bad_ex, Str_you, Str_d, Str_dash}

\* build_cooccurrence_graph is called
CallBuildGraph ==
    /\ call = NoCall
    /\ \E contexts \in GraphContextLists, window_size \in GraphWindowSizes,
          min_token_length \in GraphMinTokenLengths,
          stopwords \in GraphStopwordSets :
        call' = [fn |-> "build_cooccurrence_graph",
                 args |-> <<contexts, window_size, min_token_length, stopwords>>,
                 result |-> call_build_cooccurrence_graph(
                                contexts, window_size, min_token_length, stopwords)]
    /\ UNCHANGED <<storage_present, term_scores, feedback, request,
                   lock, connection, threads>>

\* term_graph_spectral_radius is called on the graph just built
CallRadius ==
    /\ call.fn = "build_cooccurrence_graph"
    /\ call.result.raised = ""
    /\ \E term \in GraphTerms, solver \in SolverChoices :
        call' = [fn |-> "term_graph_spectral_radius",
                 args |-> <<term, call.result.value>>,
                 built |-> call.args,
                 result |-> Returned(term_graph_spectral_radius(
                                         term, call.result.value, solver))]
    /\ UNCHANGED <<storage_present, term_scores, feedback, request,
                   lock, connection, threads>>

NextGraph == CallBuildGraph \/ CallRadius \/ ReturnFromCall

SpecGraph == InitBands /\ [][NextGraph]_vars

\* a graph was built
GraphBuilt == call.fn = "build_cooccurrence_graph" /\ call.result.raised = ""

\* C16: for every list of contexts and every valid window_size,
\* min_token_length and stopword set, the graph returned by
\* build_cooccurrence_graph has w(a,b) = w(b,a) > 0 for every stored edge,
\* no node that is its own neighbour, and for every node of the adjacency a
\* token_doc_frequency between 1 and context_count.
C16_GraphInvariants ==
    GraphBuilt =>
        LET graph == call.result.value
            adjacency == graph.adjacency
        IN  /\ \A a \in DOMAIN adjacency : \A b \in DOMAIN adjacency[a] :
                  /\ b \in DOMAIN adjacency
                  /\ a \in DOMAIN adjacency[b]
                  /\ adjacency[b][a] = adjacency[a][b]
                  /\ adjacency[a][b] > 0
                  /\ a # b
            /\ \A a \in DOMAIN adjacency :
                  /\ a \in DOMAIN graph.token_doc_frequency
                  /\ graph.token_doc_frequency[a] >= 1
                  /\ graph.token_doc_frequency[a] <= graph.context_count

\* three contexts, one of them filtered away, give a graph with an edge
\* whose tokens occur in one of the two counted contexts
C16_Witness ==
    /\ GraphBuilt
    /\ call.args[1] = <<Str_you, Str_bad_ex, Str_zz>>
    /\ call.args[4] = DEFAULT_STOPWORDS
    /\ call.result.value.context_count = 2
    /\ Str_bad \in DOMAIN call.result.value.adjacency
    /\ Str_ex \in DOMAIN call.result.value.adjacency[Str_bad]
    /\ call.result.value.token_doc_frequency[Str_bad] = 1

\* the tokens of a context that are at least min_token_length long and no
\* stopwords, in their order
SurvivingTokens(text, stopwords, min_token_length) ==
    LET Survives(token) == Len(token) >= min_token_length /\ token \notin stopwords
    IN  SelectSeq(tokenize(text), Survives)

\* the adjacency holds the edge a - b
HasEdge(graph, a, b) ==
    a \in DOMAIN graph.adjacency /\ b \in DOMAIN graph.adjacency[a]

\* a and b occur in the token list at positions i < j with j - i < window_size
OccurWithinWindow(tokens, window_size, a, b) ==
    \E i \in 1..Len(tokens), j \in 1..Len(tokens) :
        /\ i < j
        /\ j - i < window_size
        /\ \/ tokens[i] = a /\ tokens[j] = b
           \/ tokens[i] = b /\ tokens[j] = a

\* every token of the contexts of a call, filtered or not
TokensOf(contexts) ==
    UNION { Elements(tokenize(contexts[i])) : i \in 1..Len(contexts) }

\* C17: build_cooccurrence_graph stores an edge between two distinct
\* tokens a and b if and only if, in at least one context, a and b occur at
\* positions i < j of that context's filtered token list with
\* j - i < window_size: tokens only ever window_size or more apart get no
\* edge, and no co-occurring pair is dropped by the weight > 0 test.
C17_EdgeIffWithinWindow ==
    GraphBuilt =>
        LET contexts == call.args[1]
            window_size == call.args[2]
            graph == call.result.value
        IN  \A a \in TokensOf(contexts), b \in TokensOf(contexts) :
                a # b =>
                    ( HasEdge(graph, a, b)
                      <=> \E n \in 1..Len(contexts) :
                              OccurWithinWindow(
                                  SurvivingTokens(contexts[n], call.args[4], call.args[3]),
                                  window_size, a, b) )

\* "bad zz ow ex" with window_size 2 and no stopwords: bad - zz is an edge,
\* kept by the support term alone (one context, pmi = 0), and bad - ex,
\* three positions apart, is not
C17_Witness ==
    /\ GraphBuilt
    /\ call.args[1] = <<JoinWithSpace(<<Str_bad, Str_zz, Str_ow, Str_ex>>)>>
    /\ call.args[2] = 2
    /\ call.args[4] = {}
    /\ HasEdge(call.result.value, Str_bad, Str_zz)
    /\ HasEdge(call.result.value, Str_zz, Str_bad)
    /\ ~HasEdge(call.result.value, Str_bad, Str_ex)
    /\ call.result.value.adjacency[Str_bad][Str_zz] = 1000

\* the term's token has a different surviving token within the window
HasNeighbourWithinWindow(tokens, window_size, target) ==
    \E i \in 1..Len(tokens), j \in 1..Len(tokens) :
        /\ i # j
        /\ (IF i < j THEN j - i ELSE i - j) < window_size
        /\ tokens[i] = target
        /\ tokens[j] # target

\* C18: stopwords and tokens shorter than min_token_length never become
\* graph nodes, and for every list of contexts in which each token of the
\* term has no distinct surviving token within the window in any context,
\* term_graph_spectral_radius on the built graph returns exactly 0.
C18_NoSurvivingNeighbourNoSignal ==
    /\ GraphBuilt =>
          \A node \in DOMAIN call.result.value.adjacency :
              /\ node \notin call.args[4]
              /\ Len(node) >= call.args[3]
    /\ call.fn = "term_graph_spectral_radius" =>
          LET contexts == call.built[1]
              targets == tokenize(normalize_term(call.args[1]))
          IN  ( \A t \in 1..Len(targets), n \in 1..Len(contexts) :
                    ~HasNeighbourWithinWindow(
                         SurvivingTokens(contexts[n], call.built[4], call.built[3]),
                         call.built[2], targets[t]) )
              => call.result.value = 0

\* the term ex in the context "ex you we a", the term plus stopwords only,
\* under the default window, token length and stopwords
C18_Witness ==
    /\ call.fn = "term_graph_spectral_radius"
    /\ call.args[1] = Str_ex
    /\ call.built = << <<JoinWithSpace(<<Str_ex, Str_you, Str_we, Str_a>>)>>,
                       DefaultWindowSize, DefaultMinTokenLength, DEFAULT_STOPWORDS >>
    /\ call.args[2].adjacency = <<>>
    /\ call.args[2].context_count = 1
    /\ call.result.value = 0

(***************************************************************************)
(* labeler.py and llm_labeler.py: the heuristic labeler, and the LLM       *)
(* labeler that falls back on it (SpecLabeler).                            *)
(***************************************************************************)
\* sub in text, for two str
IsSubstring(sub, text) ==
    \E i \in 0..(Len(text) - Len(sub)) : SubSeq(text, i + 1, i + Len(sub)) = sub

\* labeler.py:15-39, the cues that can be written with the characters of
\* the model: " you " of second_person_cues and "we" of reclaim_cues; no
\* aggression cue can
second_person_cues == { <<" ", "y", "o", "u", " ">> }
reclaim_cues == { <<"w", "e">> }

\* labeler.py:40-81, HeuristicLabeler.label_context
heuristic_label_context(term, context) ==
    LET term_norm == normalize_term(term)
        text == <<" ">> \o lower(context) \o <<" ">>
        is_quoted == IsSubstring(<<"'">> \o term_norm \o <<"'">>, text)
        targeted_hits == Cardinality({ cue \in second_person_cues : IsSubstring(cue, text) })
        reclaim_hits ==
            Cardinality({ cue \in reclaim_cues :
                            IsSubstring(<<" ">> \o cue \o <<" ">>, text) })
        targetedness_raw == 200 + 250 * targeted_hits
        targetedness_quoted == IF is_quoted THEN (targetedness_raw * 75) \div 100
                               ELSE targetedness_raw
        severity_raw == 150 + (IF IsSubstring(<<"!">>, context) THEN 50 ELSE 0)
        severity_quoted == IF is_quoted THEN (severity_raw * 65) \div 100
                           ELSE severity_raw
        reclaimed == reclaim_hits >= 2 /\ IsSubstring(term_norm, text)
        confidence_raw == 580 + Min2(250, 40 * targeted_hits)
    IN  [targetedness |-> clamp01(IF reclaimed THEN (targetedness_quoted * 8) \div 10
                                  ELSE targetedness_quoted),
         severity |-> clamp01(IF reclaimed THEN (severity_quoted * 55) \div 100
                              ELSE severity_quoted),
         reclaimed |-> reclaimed,
         is_quoted |-> is_quoted,
         confidence |-> clamp01(IF is_quoted /\ targeted_hits = 0
                                THEN confidence_raw - 80 ELSE confidence_raw),
         rationale_code |-> "heuristic_v1"]

\* What self._client.chat.completions.create can do (llm_labeler.py:57-65):
\* raise an error of the openai package, which is no RuntimeError, or return
\* a completion whose content is empty, is no JSON, is a JSON array, or is a
\* JSON object.
ClientErrors == {"APIConnectionError", "APITimeoutError"}

UsageObjects ==
    { [targetedness_0_1 |-> 800, is_reclaimed |-> FALSE, is_quoted |-> TRUE,
       confidence_0_1 |-> 900],
      [targetedness_0_1 |-> 1500, is_reclaimed |-> FALSE, is_quoted |-> FALSE,
       confidence_0_1 |-> 900] }

SeverityObjects ==
    { [severity_0_1 |-> 900, confidence_0_1 |-> 700],
      [severity_0_1 |-> -100, confidence_0_1 |-> 700] }

Completions(objects) ==
    { Raised(error) : error \in ClientErrors }
    \cup { Returned([text |-> text]) : text \in {"empty", "not json", "array"} }
    \cup { Returned([text |-> "object", object |-> object]) : object \in objects }

\* llm_labeler.py:54-72, _run_json_prompt on what the client did
run_json_prompt(completion) ==
    IF completion.raised # "" THEN completion
    ELSE IF completion.value.text = "empty" THEN Raised("RuntimeError")
    ELSE IF completion.value.text = "not json" THEN Raised("JSONDecodeError")
    ELSE IF completion.value.text = "array" THEN Raised("RuntimeError")
    ELSE Returned(completion.value.object)

\* llm_labeler.py:20-34, model_validate of the two reply schemas: the
\* Field(ge=0.0, le=1.0) constraints
model_validate(parsed, fields) ==
    IF parsed.raised # "" THEN parsed
    ELSE IF \A f \in fields : parsed.value[f] \in 0..1000 THEN parsed
    ELSE Raised("ValidationError")

\* as caught_by_label_context, with every exception caught
caught_by_label_context_broadly(error) == TRUE

\* llm_labeler.py:101, except (RuntimeError, ValidationError,
\* json.JSONDecodeError)
caught_by_label_context(error) ==
    error \in {"RuntimeError", "ValidationError", "JSONDecodeError"}

\* llm_labeler.py:74-120, OpenAIJSONLabeler.label_context; completions is
\* what the client did for the usage prompt and for the severity prompt
\* (the second is not sent when the first fails)
label_context(term, context, completions) ==
    LET normalized == normalize_term(term)
        usage == model_validate(run_json_prompt(completions[1]),
                                {"targetedness_0_1", "confidence_0_1"})
        severity == model_validate(run_json_prompt(completions[2]),
                                   {"severity_0_1", "confidence_0_1"})
        error == IF usage.raised # "" THEN usage.raised ELSE severity.raised
        fallback == heuristic_label_context(normalized, context)
    IN  IF error = ""
        THEN Returned([targetedness |-> usage.value.targetedness_0_1,
                       severity |-> severity.value.severity_0_1,
                       reclaimed |-> usage.value.is_reclaimed,
                       is_quoted |-> usage.value.is_quoted,
                       confidence |-> clamp01((usage.value.confidence_0_1
                                               + severity.value.confidence_0_1) \div 2),
                       rationale_code |-> "openai_json_v1"])
        ELSE IF caught_by_label_context(error)
        THEN Returned([fallback EXCEPT !.rationale_code = "llm_fallback_heuristic_v1"])
        ELSE Raised(error)

\* llm_labeler.py:122-128, OpenAIJSONLabeler.label_batch: the labels in
\* order, or the first error that label_context raises
label_batch(term, contexts, completions) ==
    LET each == [i \in 1..Len(contexts) |->
                    label_context(term, contexts[i], completions[i])]
        failing == { i \in 1..Len(contexts) : each[i].raised # "" }
    IN  IF failing = {}
        THEN Returned([i \in 1..Len(contexts) |-> each[i].value])
        ELSE each[CHOOSE i \in failing : \A j \in failing : i <= j]

Str_you_ex_shout == <<"y", "o", "u", " ", "'", "e", "x", "'", "!">>
LabelerContextLists == { <<Str_bad_ex>>, <<Str_you_ex_shout, Str_bad_ex>> }

\* score_term is called on a service whose labeler is the LLM labeler
ScoreTermWithLLM ==
    /\ call = NoCall
    /\ \E contexts \in LabelerContextLists :
        \E completions \in [1..Len(contexts) ->
                               Completions(UsageObjects) \X Completions(SeverityObjects)] :
            LET labelled == label_batch(Str_ex, contexts, completions)
            IN  call' = [fn |-> "score_term",
                         args |-> <<Str_ex, contexts, "en-US", 0, FALSE>>,
                         completions |-> completions,
                         labelled |-> labelled,
                         result |-> OutcomeOf(
                             score_term(FusionEngine, storage_present, term_scores,
                                        0, Str_ex, contexts, "en-US", 0, FALSE,
                                        labelled, TwoTokenSolver).request)]
    /\ UNCHANGED <<storage_present, term_scores, feedback, request,
                   lock, connection, threads>>

NextLabeler == ScoreTermWithLLM \/ ReturnFromCall

SpecLabeler == InitBands /\ [][NextLabeler]_vars

\* the reply to a prompt is none, empty, no JSON, no object or breaks the
\* schema
MalformedReply(completion) ==
    /\ completion.raised = ""
    /\ \/ completion.value.text # "object"
       \/ \E f \in DOMAIN completion.value.object :
             /\ f \in {"targetedness_0_1", "severity_0_1", "confidence_0_1"}
             /\ completion.value.object[f] \notin 0..1000

\* the LLM labeler fails for a context: in the usage prompt, or in the
\* severity prompt that follows a good usage reply
TransportFailure(pair) ==
    \/ pair[1].raised # ""
    \/ ~MalformedReply(pair[1]) /\ pair[2].raised # ""

MalformedFailure(pair) ==
    \/ MalformedReply(pair[1])
    \/ pair[1].raised = "" /\ MalformedReply(pair[2])

\* the label of context i is the heuristic label, marked as the fallback
IsFallbackLabel(labelled, term, contexts, i) ==
    /\ labelled.raised = ""
    /\ Len(labelled.value) = Len(contexts)
    /\ labelled.value[i] =
          [heuristic_label_context(term, contexts[i])
              EXCEPT !.rationale_code = "llm_fallback_heuristic_v1"]

\* C19: whenever the LLM labeler fails for a context in any way (transport
\* or API failure, timeout, empty reply, non-JSON or non-object reply,
\* schema violation), label_context returns the heuristic label for that
\* context with rationale_code marking the fallback, label_batch still
\* returns one label per context in order, and no error reaches the
\* caller of score_term.
C19_LabelerFailureRecovered ==
    (call.fn = "score_term" /\ "completions" \in DOMAIN call) =>
        \A i \in 1..Len(call.args[2]) :
            (TransportFailure(call.completions[i]) \/ MalformedFailure(call.completions[i]))
            => /\ IsFallbackLabel(call.labelled, call.args[1], call.args[2], i)
               /\ call.result.raised = ""

\* the part that holds: when no call of the client raises, every context
\* with a malformed reply gets the fallback label and score_term returns
C19_MalformedReplyRecovered ==
    (call.fn = "score_term" /\ "completions" \in DOMAIN call) =>
        ( (\A i \in 1..Len(call.args[2]) : ~TransportFailure(call.completions[i]))
          => /\ call.result.raised = ""
             /\ \A i \in 1..Len(call.args[2]) :
                   MalformedFailure(call.completions[i])
                   => IsFallbackLabel(call.labelled, call.args[1], call.args[2], i) )

\* the client times out on the second context's usage prompt after a good
\* first context: label_batch raises and score_term fails with the error
C19_Witness ==
    /\ call.fn = "score_term"
    /\ "completions" \in DOMAIN call
    /\ Len(call.args[2]) = 2
    /\ ~TransportFailure(call.completions[1])
    /\ ~MalformedFailure(call.completions[1])
    /\ call.completions[2][1] = Raised("APITimeoutError")
    /\ call.labelled = Raised("APITimeoutError")
    /\ call.result = Raised("APITimeoutError")

(***************************************************************************)
(* Claims about score_term on an empty list of contexts (under Spec).      *)
(***************************************************************************)
\* the names under which a validation failure can surface
ValidationErrors == {"InvalidArgument", "ValidationError", "ValueError"}

\* a score_term request with no context has run to its end
EmptyContextsFinished ==
    request.pc \in {"failed", "done"} /\ request.contexts = <<>>

\* C20: score_term requires at least one context: called with an empty
\* contexts list it fails with an InvalidArgument validation error, and it
\* does so before reading or writing storage.
C20_EmptyContextsInvalidArgument ==
    EmptyContextsFinished =>
        /\ request.pc = "failed"
        /\ request.error \in ValidationErrors
        /\ request.rows_read = None

\* the part that holds: a request with no context fails in its labelling
\* step, without having read the table, and no step of it changes the table
C20_EmptyContextsNoSideEffects ==
    [][ (request.pc # "idle" /\ request.contexts = <<>>) =>
            /\ request.pc \in {"label", "failed"}
            /\ request'.pc \in {"failed", "idle"}
            /\ request'.rows_read = None
            /\ term_scores' = term_scores
      ]_vars

\* the labeler returned no label for no context, and the request failed on
\* the division by sample_size = 0, with a filled table it never read
C20_Witness ==
    /\ EmptyContextsFinished
    /\ request.error = "ZeroDivisionError"
    /\ request.persist
    /\ storage_present
    /\ Len(term_scores) >= DefaultMinSamples
    /\ request.rows_read = None

(***************************************************************************)
(* storage.py: one write on the store, statement by statement (SpecWrite): *)
(* execute the INSERT, commit, read cursor.lastrowid, return or raise.     *)
(***************************************************************************)
\* the writes a client makes
WriteCalls ==
    { [op |-> "save_term_score", args |-> <<StoredScore>>] }
    \cup { [op |-> "save_feedback", args |-> <<f>>] : f \in FeedbackRequests }

\* a write and its retry fit into the tables
MaxWrites == 2

\* cursor.lastrowid after the INSERT that gave the row its id: the id, or
\* None, the case the methods test for (storage.py:100-101, 207-208)
LastRowIds(row_id) == {Some(row_id), None}

\* storage.py:100-103 and 207-210: the end of a write after its commit
write_result(last_row_id) ==
    IF last_row_id = None THEN Raised("RuntimeError")
    ELSE Returned(TheValue(last_row_id))

\* save_term_score or save_feedback is called and enters `with self._lock`
BeginWrite ==
    /\ call = NoCall
    /\ storage_present
    /\ lock = Unlocked
    /\ \E c \in WriteCalls :
        /\ c.op = "save_term_score" =>
              Len(term_scores) - RowsAtStart(term_scores) < MaxWrites
        /\ c.op = "save_feedback" => Len(feedback) < MaxWrites
        /\ call' = [fn |-> c.op, args |-> c.args, pc |-> "execute",
                    scores_before |-> term_scores, feedback_before |-> feedback,
                    lastrowid |-> None, result |-> <<>>]
    /\ lock' = 1
    /\ UNCHANGED <<storage_present, term_scores, feedback, request,
                   connection, threads>>

\* self._connection.execute(INSERT ...) adds the row to the transaction
InsertExecutes ==
    /\ "pc" \in DOMAIN call
    /\ call.pc = "execute"
    /\ \E now \in Timestamps :
        \/ /\ call.fn = "save_term_score"
           /\ term_scores' = save_term_score(term_scores, call.args[1], now)
           /\ connection' = [connection EXCEPT !.uncommitted_scores = @ + 1]
           /\ \E last_row_id \in LastRowIds(NextRowId(term_scores)) :
                 call' = [call EXCEPT !.pc = "commit", !.lastrowid = last_row_id]
           /\ UNCHANGED feedback
        \/ /\ call.fn = "save_feedback"
           /\ feedback' = save_feedback(feedback, call.args[1], now)
           /\ connection' = [connection EXCEPT !.uncommitted_feedback = @ + 1]
           /\ \E last_row_id \in LastRowIds(NextRowId(feedback)) :
                 call' = [call EXCEPT !.pc = "commit", !.lastrowid = last_row_id]
           /\ UNCHANGED term_scores
    /\ UNCHANGED <<storage_present, request, lock, threads>>

\* the INSERT raises sqlite3.Error and adds nothing; the lock is released
InsertFails ==
    /\ "pc" \in DOMAIN call
    /\ call.pc = "execute"
    /\ call' = [call EXCEPT !.pc = "returned", !.result = Raised("sqlite3.Error")]
    /\ lock' = Unlocked
    /\ UNCHANGED <<storage_present, term_scores, feedback, request,
                   connection, threads>>

\* self._connection.commit(), then the test of cursor.lastrowid; the method
\* returns the id or raises RuntimeError, and the lock is released
CommitAndCheck ==
    /\ "pc" \in DOMAIN call
    /\ call.pc = "commit"
    /\ connection' = [connection EXCEPT !.uncommitted_scores = 0,
                                        !.uncommitted_feedback = 0]
    /\ call' = [call EXCEPT !.pc = "returned",
                            !.result = write_result(call.lastrowid)]
    /\ lock' = Unlocked
    /\ UNCHANGED <<storage_present, term_scores, feedback, request, threads>>

\* the caller has the result, and may call again
WriteReturned ==
    /\ "pc" \in DOMAIN call
    /\ call.pc = "returned"
    /\ call' = NoCall
    /\ UNCHANGED <<storage_present, term_scores, feedback, request,
                   lock, connection, threads>>

NextWrite ==
    \/ EarlierRun
    \/ Start
    \/ BeginWrite
    \/ InsertExecutes
    \/ InsertFails
    \/ CommitAndCheck
    \/ WriteReturned

SpecWrite == Init /\ [][NextWrite]_vars

\* a write has ended in the given error
WriteEndedIn(error) ==
    /\ "pc" \in DOMAIN call
    /\ call.pc = "returned"
    /\ call.result = Raised(error)

\* C21: when a storage write ends in the Internal error (the insert
\* returned no row id), the term_scores and feedback tables hold exactly
\* the rows they held before the failed save_term_score or save_feedback
\* call, so a retry cannot produce a duplicate row.
C21_NoRowIdNoSideEffects ==
    WriteEndedIn("RuntimeError") =>
        /\ term_scores = call.scores_before
        /\ feedback = call.feedback_before

\* the part that holds: a write whose INSERT raises leaves both tables as
\* they were
C21_FailedInsertNoSideEffects ==
    WriteEndedIn("sqlite3.Error") =>
        /\ term_scores = call.scores_before
        /\ feedback = call.feedback_before

\* save_term_score raised RuntimeError on a table of 39 rows, and the row
\* it inserted is there and committed
C21_Witness ==
    /\ WriteEndedIn("RuntimeError")
    /\ call.fn = "save_term_score"
    /\ Len(call.scores_before) = DefaultMinSamples - 1
    /\ Len(term_scores) = DefaultMinSamples
    /\ term_scores[DefaultMinSamples].id = DefaultMinSamples
    /\ connection.uncommitted_scores = 0
    /\ lock = Unlocked

(***************************************************************************)
(* scoring.py: the score_term calls that score_text makes (SpecTextCalls). *)
(***************************************************************************)
Str_ex_you == <<"e", "x", " ", "y", "o", "u">>
Str_zz_ex == <<"z", "z", " ", "e", "x">>
\* a text without sentence end, and one made of blanks
Text_blank == <<" ", " ">>

ObservedTexts == {Text_two_sentences, Text_hyphenated, Text_one_word, Text_blank}

\* candidates that lie in one sentence, in two, across the sentence
\* boundary ("ex you"), or nowhere
ObservedCandidates ==
    {Str_ex, Str_Ex_padded, Str_bad_ex, Str_ex_you, Str_zz_ex, Str_zz,
     Str_ex_bad_hyphen, Str_bad, Str_dash, Str_blank}

\* score_text is called, and the score_term requests it made are kept
ScoreTextObserved ==
    /\ call = NoCall
    /\ \E text \in ObservedTexts, first \in ObservedCandidates,
          second \in ObservedCandidates, label \in LabelChoices :
        LET done == score_text(FusionEngine, storage_present, term_scores, 0,
                               text, <<first, second>>, "en-US", FALSE,
                               label, StoreSolver)
        IN  call' = [fn |-> "score_text",
                     args |-> <<text, <<first, second>>, "en-US", FALSE>>,
                     score_term_requests |-> done.requests,
                     result |-> done.outcome]
    /\ UNCHANGED <<storage_present, term_scores, feedback, request,
                   lock, connection, threads>>

NextTextCalls == ScoreTextObserved \/ ReturnFromCall

SpecTextCalls == InitBands /\ [][NextTextCalls]_vars

\* the tokens occur one after the other in the token list
OccursContiguously(tokens, wanted) ==
    /\ wanted # <<>>
    /\ \E at \in 1..Len(tokens) :
          /\ at + Len(wanted) - 1 <= Len(tokens)
          /\ \A k \in 1..Len(wanted) : tokens[at + k - 1] = wanted[k]

\* the sentences of a text: its pieces between a sentence end followed by
\* whitespace, or the text itself when there is no piece
SentencesOf(text) == IF split_sentences(text) = <<>> THEN <<text>> ELSE split_sentences(text)

\* C22: in score_text, every score_term call is made with a non-empty
\* context list in which at least one context contains the candidate's
\* tokens contiguously: the contexts are the sentences containing the
\* candidate, or, when no sentence contains it, the single original text;
\* hence no scored candidate is scored as 'term not found'.
C22_ScoredOnContextsWithTheTerm ==
    (call.fn = "score_text" /\ "score_term_requests" \in DOMAIN call) =>
        \A n \in 1..Len(call.score_term_requests) :
            LET req == call.score_term_requests[n]
                text == call.args[1]
                wanted == tokenize(req.term)
                holding == SelectSeq(SentencesOf(text),
                                     LAMBDA sentence :
                                         OccursContiguously(tokenize(sentence), wanted))
            IN  /\ req.contexts # <<>>
                /\ \E i \in 1..Len(req.contexts) :
                      OccursContiguously(tokenize(req.contexts[i]), wanted)
                /\ req.contexts = IF holding = <<>> THEN <<text>> ELSE holding
                /\ req.term_found_in_context
                /\ \A w \in 1..Len(req.warnings) : req.warnings[w] # TermAbsentWarning

\* "ex you" lies across the sentence boundary of "bad Ex. you zz ex!" and
\* is scored on the whole text; "ex" is scored on both sentences
C22_Witness ==
    /\ call.fn = "score_text"
    /\ "score_term_requests" \in DOMAIN call
    /\ call.args[1] = Text_two_sentences
    /\ Len(call.score_term_requests) = 2
    /\ call.score_term_requests[1].term = Str_ex
    /\ Len(call.score_term_requests[1].contexts) = 2
    /\ call.score_term_requests[2].term = Str_ex_you
    /\ call.score_term_requests[2].contexts = <<Text_two_sentences>>
    /\ call.result.raised = ""
    /\ call.result.value.terms_found = 2

(***************************************************************************)
(* spectral.py: _ego_nodes, step by step (SpecEgo).  A graph maps a node   *)
(* to the list of its neighbours in the order of the dict; nodes are       *)
(* numbered in the ascending order of their keys.  `for node in frontier`  *)
(* iterates a set of str, whose order is not fixed by the program: the     *)
(* next node is any node of the frontier not yet taken.                    *)
(***************************************************************************)
\* spectral.py:230, the default of max_nodes
max_nodes == 128

\* a path 1 - 2 - 3 - 4
PathGraph == (1 :> <<2>>) @@ (2 :> <<1, 3>>) @@ (3 :> <<2, 4>>) @@ (4 :> <<3>>)
\* a triangle whose neighbours are listed in differing orders
TriangleGraph == (1 :> <<3, 2>>) @@ (2 :> <<1, 3>>) @@ (3 :> <<2, 1>>)
\* an adjacency with a neighbour that is no key
OneWayGraph == (1 :> <<2, 1>>) @@ (3 :> <<1>>)
\* a star of stars: 1 has the neighbours 2 and 3, which have 125 leaves
\* each (4..128 and 129..253), 253 nodes within two hops of node 1
LeavesPerHub == 125
TwoHubGraph ==
    [node \in 1..(3 + 2 * LeavesPerHub) |->
        IF node = 1 THEN <<2, 3>>
        ELSE IF node = 2 THEN <<1>> \o [k \in 1..LeavesPerHub |-> 3 + k]
        ELSE IF node = 3 THEN <<1>> \o [k \in 1..LeavesPerHub |-> 3 + LeavesPerHub + k]
        ELSE IF node <= 3 + LeavesPerHub THEN <<2>>
        ELSE <<3>>]

\* the calls of _ego_nodes: graph, center, hops
EgoCalls ==
    ({PathGraph, TriangleGraph, OneWayGraph} \X {1, 2, 3, 9} \X {0, 1, 2, 3})
    \cup ({TwoHubGraph} \X {1, 300} \X {0, 1, 2})

\* sorted(visited): the i-th element has i - 1 smaller ones
SortedNodes(nodes) ==
    [i \in 1..Cardinality(nodes) |->
        CHOOSE n \in nodes : Cardinality({m \in nodes : m < n}) = i - 1]

\* as cap_reached, testing after the cap has been passed
cap_reached_late(visited) == Cardinality(visited) > max_nodes

\* spectral.py:245, len(visited) >= max_nodes
cap_reached(visited) == Cardinality(visited) >= max_nodes

\* spectral.py:232-236: _ego_nodes is called
CallEgoNodes ==
    /\ call = NoCall
    /\ \E c \in EgoCalls :
        call' = IF c[2] \notin DOMAIN c[1]
                THEN [fn |-> "_ego_nodes", args |-> c, pc |-> "returned",
                      visited |-> {}, frontier |-> {}, next_frontier |-> {},
                      frontier_left |-> {}, neighbours_left |-> <<>>,
                      hops_left |-> c[3], result |-> <<>>]
                ELSE [fn |-> "_ego_nodes", args |-> c, pc |-> "hop",
                      visited |-> {c[2]}, frontier |-> {c[2]}, next_frontier |-> {},
                      frontier_left |-> {}, neighbours_left |-> <<>>,
                      hops_left |-> c[3], result |-> <<>>]
    /\ UNCHANGED <<storage_present, term_scores, feedback, request,
                   lock, connection, threads>>

InEgoNodes(pc) == "pc" \in DOMAIN call /\ call.fn = "_ego_nodes" /\ call.pc = pc

\* spectral.py:237-238: the next round of `for _ in range(hops)`, or the
\* return after the last one (line 250)
BeginHop ==
    /\ InEgoNodes("hop")
    /\ call' = IF call.hops_left = 0
               THEN [call EXCEPT !.pc = "returned",
                                 !.result = SortedNodes(call.visited)]
               ELSE [call EXCEPT !.pc = "frontier",
                                 !.hops_left = @ - 1,
                                 !.next_frontier = {},
                                 !.frontier_left = call.frontier]
    /\ UNCHANGED <<storage_present, term_scores, feedback, request,
                   lock, connection, threads>>

\* spectral.py:239-240: `for node in frontier` takes its next node
PickFrontierNode ==
    /\ InEgoNodes("frontier")
    /\ \E node \in call.frontier_left :
        call' = [call EXCEPT
                   !.pc = "neighbours",
                   !.frontier_left = @ \ {node},
                   !.neighbours_left = IF node \in DOMAIN call.args[1]
                                       THEN call.args[1][node] ELSE <<>>]
    /\ UNCHANGED <<storage_present, term_scores, feedback, request,
                   lock, connection, threads>>

\* spectral.py:240-246: the next neighbour of the node
VisitNeighbour ==
    /\ InEgoNodes("neighbours")
    /\ call.neighbours_left # <<>>
    /\ LET neighbor == Head(call.neighbours_left)
           visited == call.visited \cup {neighbor}
       IN  call' = IF neighbor \in call.visited
                   THEN [call EXCEPT !.neighbours_left = Tail(@)]
                   ELSE IF cap_reached(visited)
                   THEN [call EXCEPT !.pc = "returned",
                                     !.visited = visited,
                                     !.next_frontier = @ \cup {neighbor},
                                     !.result = SortedNodes(visited)]
                   ELSE [call EXCEPT !.neighbours_left = Tail(@),
                                     !.visited = visited,
                                     !.next_frontier = @ \cup {neighbor}]
    /\ UNCHANGED <<storage_present, term_scores, feedback, request,
                   lock, connection, threads>>

\* the neighbours of the node are exhausted
NodeDone ==
    /\ InEgoNodes("neighbours")
    /\ call.neighbours_left = <<>>
    /\ call' = [call EXCEPT !.pc = "frontier"]
    /\ UNCHANGED <<storage_present, term_scores, feedback, request,
                   lock, connection, threads>>

\* spectral.py:247-250: the frontier is exhausted
EndHop ==
    /\ InEgoNodes("frontier")
    /\ call.frontier_left = {}
    /\ call' = IF call.next_frontier = {}
               THEN [call EXCEPT !.pc = "returned",
                                 !.result = SortedNodes(call.visited)]
               ELSE [call EXCEPT !.pc = "hop", !.frontier = call.next_frontier]
    /\ UNCHANGED <<storage_present, term_scores, feedback, request,
                   lock, connection, threads>>

\* the caller has the list
EgoNodesReturned ==
    /\ InEgoNodes("returned")
    /\ call' = NoCall
    /\ UNCHANGED <<storage_present, term_scores, feedback, request,
                   lock, connection, threads>>

NextEgo ==
    \/ CallEgoNodes
    \/ BeginHop
    \/ PickFrontierNode
    \/ VisitNeighbour
    \/ NodeDone
    \/ EndHop
    \/ EgoNodesReturned

SpecEgo == InitBands /\ [][NextEgo]_vars

\* the nodes within k edges of the center
RECURSIVE WithinHops(_, _, _)
WithinHops(graph, center, k) ==
    IF k = 0 THEN {center}
    ELSE LET nearer == WithinHops(graph, center, k - 1)
         IN  nearer \cup UNION { { graph[n][i] : i \in 1..Len(graph[n]) } :
                                 n \in nearer \cap DOMAIN graph }

\* One round of a call that visits frontier nodes and neighbours in
\* ascending order: the candidates are the neighbours in the order they are
\* met; the new ones are taken in the order of their first occurrence until
\* the visited set has max_nodes nodes.
AscendingVisit(visited, candidates) ==
    LET kept == SelectSeq(candidates, LAMBDA n : n \notin visited)
        firsts == { i \in 1..Len(kept) : \A j \in 1..(i - 1) : kept[j] # kept[i] }
        room == max_nodes - Cardinality(visited)
        capped == Cardinality(firsts) >= room
        taken == IF capped
                 THEN { kept[i] : i \in { k \in firsts :
                                            Cardinality({ j \in firsts : j <= k }) <= room } }
                 ELSE { kept[i] : i \in firsts }
    IN  [visited |-> visited \cup taken, frontier |-> taken, capped |-> capped]

RECURSIVE AscendingNeighbours(_, _)
AscendingNeighbours(graph, nodes) ==
    IF nodes = <<>> THEN <<>>
    ELSE (IF Head(nodes) \in DOMAIN graph
          THEN SortedNodes({ graph[Head(nodes)][i] : i \in 1..Len(graph[Head(nodes)]) })
          ELSE <<>>)
         \o AscendingNeighbours(graph, Tail(nodes))

RECURSIVE AscendingEgo(_, _, _, _)
AscendingEgo(graph, visited, frontier, hops) ==
    IF hops = 0 \/ frontier = {} THEN visited
    ELSE LET round == AscendingVisit(visited,
                                     AscendingNeighbours(graph, SortedNodes(frontier)))
         IN  IF round.capped THEN round.visited
             ELSE AscendingEgo(graph, round.visited, round.frontier, hops - 1)

\* a call of _ego_nodes on a graph that has the center has returned
EgoReturned == InEgoNodes("returned") /\ call.args[2] \in DOMAIN call.args[1]

\* C23: the ego-subgraph node set computed for a centre and a graph is the
\* same for every order in which frontier nodes and their neighbours are
\* visited, including when the 128-node cap stops the expansion: every run
\* returns the node set of the run that visits in ascending order.
C23_EgoNodesOrderIndependent ==
    EgoReturned =>
        call.result = SortedNodes(AscendingEgo(call.args[1], {call.args[2]},
                                               {call.args[2]}, call.args[3]))

\* the part that holds: a run that the cap does not stop returns the nodes
\* within hops edges of the centre, whatever the order
C23_SameBelowCap ==
    (EgoReturned /\ Len(call.result) < max_nodes) =>
        call.result = SortedNodes(WithinHops(call.args[1], call.args[2], call.args[3]))

\* on the graph with two hubs the run that takes hub 3 before hub 2 stops
\* at the cap with the leaves of hub 3 and none of hub 2
C23_Witness ==
    /\ EgoReturned
    /\ call.args = <<TwoHubGraph, 1, 2>>
    /\ Len(call.result) = max_nodes
    /\ call.result[4] = 4 + LeavesPerHub
    /\ call.result[max_nodes] = 3 + 2 * LeavesPerHub
    /\ 4 \notin call.visited

\* C24: for every graph, centre and hops >= 0, _ego_nodes returns the empty
\* list when the centre is not in the adjacency, and otherwise a
\* duplicate-free list sorted ascending that contains the centre, has at
\* most 128 nodes, and contains only nodes reachable from the centre in at
\* most hops edges.
C24_EgoNodesShape ==
    InEgoNodes("returned") =>
        LET graph == call.args[1]
            center == call.args[2]
            nodes == call.result
        IN  IF center \notin DOMAIN graph THEN nodes = <<>>
            ELSE /\ \A i \in 1..(Len(nodes) - 1) : nodes[i] < nodes[i + 1]
                 /\ \E i \in 1..Len(nodes) : nodes[i] = center
                 /\ Len(nodes) <= 128
                 /\ \A i \in 1..Len(nodes) :
                        nodes[i] \in WithinHops(graph, center, call.args[3])

\* the cap stops the second round on the graph with two hubs: 128 nodes,
\* the leaves of hub 2 among them
C24_Witness ==
    /\ InEgoNodes("returned")
    /\ call.args = <<TwoHubGraph, 1, 2>>
    /\ call.hops_left = 0
    /\ Len(call.result) = 128
    /\ call.result[1] = 1
    /\ call.result[128] = 3 + LeavesPerHub

(***************************************************************************)
(* get_feature_quantiles called on a store of any size, with any           *)
(* sample_limit and min_samples.                                           *)
(***************************************************************************)
MaxQuantileRows == 45

SampleLimits == {-1, 0, 1, 3, 41, DefaultSampleLimit, 6000}
MinSamples == {-1, 0, 1, 2, DefaultMinSamples, 42}

InitQuantiles ==
    /\ call = NoCall
    /\ storage_present = TRUE
    /\ term_scores = <<>>
    /\ feedback = <<>>
    /\ request = NoRequest
    /\ lock = Unlocked
    /\ connection = IdleConnection
    /\ threads = NoThreads

\* a score_term call with persist stores its row
RowStored ==
    /\ call = NoCall
    /\ Len(term_scores) < MaxQuantileRows
    /\ term_scores' = AfterEarlierCall(term_scores, Len(term_scores) + 1)
    /\ UNCHANGED <<lock, connection, threads, call, storage_present, feedback, request>>

GetFeatureQuantiles ==
    /\ call = NoCall
    /\ \E sample_limit \in SampleLimits, min_samples \in MinSamples :
        call' = [fn |-> "get_feature_quantiles",
                 args |-> <<sample_limit, min_samples>>,
                 result |-> get_feature_quantiles(term_scores, sample_limit,
                                                  min_samples)]
    /\ UNCHANGED <<lock, connection, threads, storage_present, term_scores, feedback, request>>

NextQuantiles == RowStored \/ GetFeatureQuantiles \/ ReturnFromCall

SpecQuantiles == InitQuantiles /\ [][NextQuantiles]_vars

\* the k rows of the table with the largest ids, all rows if there are fewer
MostRecentRows(table, k) ==
    SelectSeq(table, LAMBDA row :
        Cardinality({i \in 1..Len(table) : table[i].id > row.id}) < k)

\* the seven values, computed from a snapshot of rows; no row has no quantile
QuantilesOfSnapshot(snapshot) ==
    IF snapshot = <<>> THEN [sample_count |-> 0] ELSE
    [sample_count |-> 1000 * Len(snapshot),
     eigen_ctx_p50 |-> quantile([i \in 1..Len(snapshot) |-> snapshot[i].eigen_ctx], 5),
     eigen_ctx_p90 |-> quantile([i \in 1..Len(snapshot) |-> snapshot[i].eigen_ctx], 9),
     eigen_graph_p50 |-> quantile([i \in 1..Len(snapshot) |-> snapshot[i].eigen_graph], 5),
     eigen_graph_p90 |-> quantile([i \in 1..Len(snapshot) |-> snapshot[i].eigen_graph], 9),
     score_p70 |-> quantile([i \in 1..Len(snapshot) |-> snapshot[i].score], 7),
     score_p90 |-> quantile([i \in 1..Len(snapshot) |-> snapshot[i].score], 9)]

QuantilesCalled == call.fn = "get_feature_quantiles"

\* C25 as stated: get_feature_quantiles(sample_limit, min_samples) returns
\* absent when the table holds fewer than min_samples rows, and otherwise
\* the values of the most recent clamp(sample_limit, 40, 5000) rows by id
\* (all rows if there are fewer), sample_count being the number of rows of
\* that snapshot.
C25_SnapshotOfClampedLimit ==
    QuantilesCalled =>
        LET sample_limit == call.args[1]
            min_samples == call.args[2]
            snapshot == MostRecentRows(term_scores,
                                       Max2(40, Min2(sample_limit, 5000)))
        IN  call.result = IF Len(term_scores) < min_samples THEN None
                          ELSE Some(QuantilesOfSnapshot(snapshot))

\* C25 amended: the snapshot is the most recent
\* max(min_samples, min(sample_limit, 5000)) rows by id (all rows if there
\* are fewer, or if that number is negative); the result is absent when the
\* snapshot holds fewer than min_samples rows or no row, and otherwise the
\* values of the snapshot, sample_count being its number of rows.
C25_SnapshotFlooredByMinSamples ==
    QuantilesCalled =>
        LET sample_limit == call.args[1]
            min_samples == call.args[2]
            limit == Max2(min_samples, Min2(sample_limit, 5000))
            snapshot == IF limit < 0 THEN term_scores
                        ELSE MostRecentRows(term_scores, limit)
        IN  call.result = IF Len(snapshot) < min_samples \/ snapshot = <<>>
                          THEN None
                          ELSE Some(QuantilesOfSnapshot(snapshot))

\* a call with min_samples = 2 and sample_limit = 1 on three rows or more
\* has returned the values of a snapshot of two rows
C25_Witness ==
    /\ QuantilesCalled
    /\ call.args = <<1, 2>>
    /\ Len(term_scores) >= 3
    /\ call.result # None
    /\ TheValue(call.result).sample_count = 2000

(***************************************************************************)
(* The hashed embedder, token by token.  A 64-bit hash word is kept as the *)
(* eight bytes of its digest, most significant byte first.                 *)
(***************************************************************************)
\* hashlib.blake2b(token.encode("utf-8"), digest_size=8).digest()
blake2b_digest(token) ==
    CASE token = Str_ex -> <<19, 91, 233, 106, 114, 81, 215, 11>>
      [] token = Str_bad -> <<167, 224, 72, 17, 246, 243, 28, 83>>
      [] token = Str_you -> <<61, 229, 36, 133, 117, 110, 118, 63>>
      [] token = Str_zz -> <<95, 225, 248, 79, 132, 62, 40, 201>>
      [] token = Str_ow -> <<204, 227, 13, 113, 186, 45, 166, 88>>
      [] token = Str_we -> <<172, 188, 216, 184, 116, 130, 13, 221>>
      [] token = Str_a -> <<64, 248, 158, 57, 91, 102, 66, 47>>
      [] token = Str_d -> <<181, 165, 229, 86, 188, 168, 140, 123>>

\* int.from_bytes(digest, "big", signed=False) % dim, over the first n bytes
RECURSIVE from_bytes_mod(_, _, _)
from_bytes_mod(digest, n, dim) ==
    IF n = 0 THEN 0
    ELSE (from_bytes_mod(digest, n - 1, dim) * 256 + digest[n]) % dim

\* (raw >> 63) & 1: the top bit of the most significant byte
top_bit(digest) == (digest[1] \div 128) % 2

\* _token_hash with the sign of the other polarity
token_hash_positive_when_set(token, dim) ==
    LET digest == blake2b_digest(token)
    IN  [index |-> from_bytes_mod(digest, 8, dim),
         sign |-> IF top_bit(digest) = 1 THEN 1 ELSE -1]

\* spectral.py _token_hash
token_hash(token, dim) ==
    LET digest == blake2b_digest(token)
    IN  [index |-> from_bytes_mod(digest, 8, dim),
         sign |-> IF top_bit(digest) = 1 THEN -1 ELSE 1]

\* the sum of vec[b]^2 over the buckets that are not zero
RECURSIVE sum_of_squares(_, _)
sum_of_squares(vec, buckets) ==
    IF buckets = {} THEN 0
    ELSE LET b == CHOOSE x \in buckets : TRUE
         IN  vec[b] * vec[b] + sum_of_squares(vec, buckets \ {b})

\* np.linalg.norm(vec), in thousandths
norm(vec) ==
    LET squares == sum_of_squares(vec, {b \in 1..Len(vec) : vec[b] # 0})
    IN  CHOOSE k \in 0..4000 :
            k * k <= squares * 1000000 /\ (k + 1) * (k + 1) > squares * 1000000

\* vec /= norm, entries in thousandths
divided_by_norm(vec) ==
    LET n == norm(vec)
    IN  [i \in 1..Len(vec) |->
            IF vec[i] >= 0 THEN (vec[i] * 1000000) \div n
            ELSE 0 - ((0 - vec[i]) * 1000000) \div n]

Text_ow_ow_we == <<"o", "w", " ", "o", "w", " ", "w", "e">>
Text_we_d_a == <<"w", "e", " ", "d", " ", "a">>

EmbedTexts ==
    {Str_bad_ex, Str_you_ex, Str_zz_ex, Str_ex_you, Str_Ex_padded,
     Text_blank, Text_ow_ow_we, Text_we_d_a}
EmbedDims == {1, 2, 7, 32, 256}

\* embed_text is called: vec = np.zeros(dim); bucket b is vec[b + 1]
CallEmbedText ==
    /\ call = NoCall
    /\ \E text \in EmbedTexts, dim \in EmbedDims :
        call' = [fn |-> "embed_text", args |-> <<text, dim>>, result |-> <<>>,
                 pc |-> "tokens", tokens |-> tokenize(text), done |-> 0,
                 vec |-> [b \in 1..dim |-> 0]]
    /\ UNCHANGED <<lock, connection, threads, storage_present, term_scores, feedback, request>>

InEmbedText(pc) == call.fn = "embed_text" /\ call.pc = pc

\* for token in tokenize(text): idx, sign = _token_hash(token, dim);
\* vec[idx] += sign
AddToken ==
    /\ InEmbedText("tokens")
    /\ call.done < Len(call.tokens)
    /\ LET hashed == token_hash(call.tokens[call.done + 1], call.args[2])
       IN  call' = [call EXCEPT !.done = @ + 1,
                                !.vec[hashed.index + 1] = @ + hashed.sign]
    /\ UNCHANGED <<lock, connection, threads, storage_present, term_scores, feedback, request>>

\* norm = np.linalg.norm(vec); if norm > 0: vec /= norm; return vec
NormalizeAndReturn ==
    /\ InEmbedText("tokens")
    /\ call.done = Len(call.tokens)
    /\ LET vec == IF norm(call.vec) > 0 THEN divided_by_norm(call.vec)
                  ELSE call.vec
       IN  call' = [call EXCEPT !.pc = "returned", !.result = <<vec>>]
    /\ UNCHANGED <<lock, connection, threads, storage_present, term_scores, feedback, request>>

EmbedTextReturned ==
    /\ InEmbedText("returned")
    /\ call' = NoCall
    /\ UNCHANGED <<lock, connection, threads, storage_present, term_scores, feedback, request>>

NextEmbed ==
    \/ CallEmbedText
    \/ AddToken
    \/ NormalizeAndReturn
    \/ EmbedTextReturned

SpecEmbed == InitBands /\ [][NextEmbed]_vars

\* the step of embed_text that handles one token
TokenAdded == InEmbedText("tokens") /\ call'.fn = "embed_text" /\ call'.done = call.done + 1

\* bit 63 of the 64-bit word whose big-endian bytes are the digest:
\* the word is at least 2^63 iff its first byte is at least 128
Bit63(digest) == IF digest[1] >= 128 THEN 1 ELSE 0

\* 256^k modulo dim
RECURSIVE PowerOf256Mod(_, _)
PowerOf256Mod(k, dim) ==
    IF k = 0 THEN 1 % dim ELSE (PowerOf256Mod(k - 1, dim) * (256 % dim)) % dim

\* the word modulo dim, from its digits in base 256
WordMod(digest, dim) ==
    LET term == [k \in 1..8 |-> (digest[k] % dim) * PowerOf256Mod(8 - k, dim)]
    IN  (term[1] + term[2] + term[3] + term[4]
          + term[5] + term[6] + term[7] + term[8]) % dim

\* what the step added to each bucket
AddedTo(b) == call'.vec[b + 1] - call.vec[b + 1]

\* C26 as stated: for every token and dim the embedder adds +1.0 to bucket
\* (h mod dim) when bit 63 of the token's hash word h is 1 and -1.0 when it
\* is 0, h being the word that gives the bucket.
C26_SignFromTopBit ==
    [][TokenAdded =>
        LET digest == blake2b_digest(call.tokens[call.done + 1])
        IN  AddedTo(WordMod(digest, call.args[2]))
                = IF Bit63(digest) = 1 THEN 1 ELSE -1]_vars

\* the step adds one unit, of either sign, to bucket (h mod dim) and
\* nothing to any other bucket
C26_OneUnitIntoBucket ==
    [][TokenAdded =>
        LET digest == blake2b_digest(call.tokens[call.done + 1])
            bucket == WordMod(digest, call.args[2])
        IN  /\ AddedTo(bucket) \in {1, -1}
            /\ \A b \in 0..(call.args[2] - 1) : b # bucket => AddedTo(b) = 0]_vars

\* "bad" (top bit 1, bucket 83 of 256) has been added to a zero vector and
\* left -1 in its bucket
C26_Witness ==
    /\ InEmbedText("tokens")
    /\ call.args = <<Str_bad_ex, 256>>
    /\ call.done = 1
    /\ top_bit(blake2b_digest(call.tokens[1])) = 1
    /\ call.vec[83 + 1] = -1

(***************************************************************************)
(* The three regimes of a score_term request, by the number of rows that   *)
(* term_scores holds when the request is served.                           *)
(***************************************************************************)
\* the request has fused its features and not yet saved its row
Fused == request.pc = "persist"

\* the quantiles of the rows the table holds
HistoryQuantiles == QuantilesOfSnapshot(MostRecentRows(term_scores, DefaultSampleLimit))

\* the thresholds blended with the history
TunedFromHistory ==
    LET review == clamp((7 * FusionEngine.review_threshold
                          + 3 * HistoryQuantiles.score_p70) \div 10, 200, 750)
        candidate == (7 * FusionEngine.block_threshold
                       + 3 * HistoryQuantiles.score_p90) \div 10
    IN  <<review, clamp(Max2(candidate, review + 80), review + 80, 950)>>

DefaultBandThresholds ==
    <<FusionEngine.review_threshold, FusionEngine.block_threshold>>

\* fusion as it comes out with and without the quantiles of the history
FusedUncalibrated == fuse(FusionEngine, feature_vector(request), None).value
FusedCalibrated ==
    fuse(FusionEngine, feature_vector(request), Some(HistoryQuantiles)).value

\* C27: with N rows in term_scores a score_term request uses no quantiles
\* and the default thresholds when N < 40; has its spectral features
\* calibrated with the quantiles of the history inside fusion but its band
\* assigned with the default thresholds when 40 <= N < 80; and has its band
\* assigned with thresholds tuned from the history only when N >= 80.
C27_ThreeRegimes ==
    Fused =>
        LET N == Len(term_scores)
            thresholds == <<request.review_threshold, request.block_threshold>>
            fusion == TheValue(request.fusion)
        IN  /\ N < 40 =>
                /\ request.feature_quantiles = None
                /\ fusion = FusedUncalibrated
                /\ thresholds = DefaultBandThresholds
            /\ N >= 40 /\ N < 80 =>
                /\ fusion = FusedCalibrated
                /\ thresholds = DefaultBandThresholds
            /\ N >= 80 =>
                /\ fusion = FusedCalibrated
                /\ thresholds = TunedFromHistory
            /\ Response.band = BandUnder(fusion.score, thresholds)

\* a request served on 40 rows: the calibration has changed its score and
\* its band is assigned with the default thresholds
C27_Witness ==
    /\ Fused
    /\ Len(term_scores) = 40
    /\ TheValue(request.fusion).score # FusedUncalibrated.score
    /\ request.review_threshold = FusionEngine.review_threshold

\* a request served on 80 rows has thresholds that are not the defaults
C27_TunedReached ==
    /\ Fused
    /\ Len(term_scores) = 80
    /\ <<request.review_threshold, request.block_threshold>> # DefaultBandThresholds

(***************************************************************************)
(* Concurrent score_term requests with persist = true on one store.  Each  *)
(* request thread serves one request: it labels and computes the spectral  *)
(* features on its own, reads the quantiles inside the store's lock,       *)
(* fuses, and saves its row inside the lock again.  The store is empty     *)
(* when the requests start.                                                *)
(***************************************************************************)
\* a with block that gives the lock back only at its end
with_lock_exit_at_end_only(held_by, outcome) ==
    IF outcome.raised # "" THEN held_by ELSE Unlocked

\* storage.py:73, 111: `with self._lock` is left, by its end or by an
\* exception; the lock is free afterwards
with_lock_exit(held_by, outcome) == Unlocked

\* the requests the threads serve
ConcurrentCalls ==
    { ScoreTermCall(Str_ex, <<Str_bad_ex>>, 0, TRUE),
      ScoreTermCall(Str_zz, <<Str_you_ex>>, 0, TRUE) }

\* the request that thread t serves
ConcurrentCallOf(t) ==
    IF t % 2 = 1 THEN ScoreTermCall(Str_ex, <<Str_bad_ex>>, 0, TRUE)
    ELSE ScoreTermCall(Str_zz, <<Str_you_ex>>, 0, TRUE)

\* what the labeler does for a concurrent request
ConcurrentLabels == {StoreLabels, Raised("LabelerError")}

\* scoring.py:84-111: the request up to its first use of the store
score_term_before_store(c, labelled) ==
    score_term_spectral(
        score_term_label(
            score_term_enter(c.term, c.contexts, c.locale, c.trend_velocity,
                             c.persist),
            labelled),
        StoreSolver)

\* scoring.py:117-156: the request from the quantiles it was given
score_term_after_quantiles(req, engine, feature_quantiles) ==
    LET tuned == tuned_band_thresholds(engine.review_threshold,
                                       engine.block_threshold,
                                       feature_quantiles, TunedMinSamples)
    IN  score_term_fuse([req EXCEPT !.pc = "fuse",
                                    !.feature_quantiles = feature_quantiles,
                                    !.review_threshold = tuned[1],
                                    !.block_threshold = tuned[2]],
                        engine)

\* the requests as they come out of fusion when the store has no quantile
\* snapshot for them, worked out once for every call
FusedWithoutSnapshot ==
    [c \in ConcurrentCalls |->
        score_term_after_quantiles(score_term_before_store(c, StoreLabels),
                                   FusionEngine, None)]

\* a request has left score_term with an exception
FailedThread(req, exception) ==
    [pc |-> "failed", op |-> "score_term", args |-> <<>>,
     result |-> Some(Raised(exception)), request |-> req]

\* a thread takes a request; it labels the contexts and computes the
\* spectral features, and calls get_feature_quantiles unless that failed
RequestArrives(t) ==
    /\ call = NoCall
    /\ storage_present
    /\ threads[t].pc = "idle"
    /\ \E c \in {ConcurrentCallOf(t)}, labelled \in ConcurrentLabels :
        LET req == score_term_before_store(c, labelled)
        IN  threads' = [threads EXCEPT ![t] =
                IF req.pc = "failed" THEN FailedThread(req, req.error)
                ELSE [pc |-> "acquire", op |-> "get_feature_quantiles",
                      args |-> <<>>, result |-> None, request |-> req,
                      served |-> c]]
    /\ UNCHANGED <<call, storage_present, term_scores, feedback, request,
                   lock, connection>>

\* the `with` block of the store's method is left and the method returns
\* or raises into score_term: after get_feature_quantiles the request fuses
\* and calls save_term_score, after save_term_score it returns its response
LeaveStore(t) ==
    /\ threads[t].pc = "release"
    /\ "request" \in DOMAIN threads[t]
    /\ LET outcome == TheValue(threads[t].result)
           req == threads[t].request
       IN  /\ lock' = with_lock_exit(lock, outcome)
           /\ threads' = [threads EXCEPT ![t] =
                IF outcome.raised # "" THEN FailedThread(req, outcome.raised)
                ELSE IF threads[t].op = "get_feature_quantiles"
                THEN LET fused == IF outcome.value = None
                                      THEN FusedWithoutSnapshot[threads[t].served]
                                      ELSE score_term_after_quantiles(
                                               req, FusionEngine, outcome.value)
                     IN  IF fused.pc = "failed"
                         THEN FailedThread(fused, fused.error)
                         ELSE [pc |-> "acquire", op |-> "save_term_score",
                               args |-> <<TheValue(fused.response)>>,
                               result |-> None, request |-> fused]
                ELSE [pc |-> "done", op |-> "score_term", args |-> <<>>,
                      result |-> Some(Returned(TheValue(req.response))),
                      request |-> req, row_id |-> outcome.value]]
    /\ UNCHANGED <<call, storage_present, term_scores, feedback, request,
                   connection>>

\* the next step of a request that is under way, when nothing fails
RequestProgress(t) ==
    \/ AcquireLock(t)
    \/ BeginStatement(t)
    \/ EndStatement(t)
    \/ Commit(t)
    \/ LeaveStore(t)

NextRequests ==
    \/ \E t \in Threads : RequestArrives(t)
    \/ \E t \in Threads : AcquireLock(t)
    \/ \E t \in Threads : BeginStatement(t)
    \/ \E t \in Threads : EndStatement(t)
    \/ \E t \in Threads : StatementFails(t)
    \/ \E t \in Threads : Commit(t)
    \/ \E t \in Threads : LeaveStore(t)

\* a request thread that can run does run in the end: a thread inside a
\* method of the store goes on, and a thread waiting for the lock gets it
\* once it stays free; when requests arrive is up to the clients
SpecRequests ==
    /\ InitQuantiles
    /\ [][NextRequests]_vars
    /\ \A t \in Threads : WF_vars(RequestProgress(t))

\* the thread's request has returned / has left score_term either way
Completed(t) == threads[t].pc = "done"
Finished(t) == threads[t].pc \in {"done", "failed"}

\* the rows term_scores has gained since the requests started, on a store
\* that was empty then
GainedRows == term_scores

\* C28 (rows): when every request has finished, term_scores has gained one
\* committed row per completed request, with pairwise distinct ids, each
\* the row of one request; K rows when all K requests have completed.
RowsOnePerRequest ==
    (\A t \in Threads : Finished(t)) =>
        LET completed == {t \in Threads : Completed(t)}
        IN  /\ Len(GainedRows) = Cardinality(completed)
            /\ \A i, j \in 1..Len(term_scores) :
                  i # j => term_scores[i].id # term_scores[j].id
            /\ \A t \in completed :
                  Cardinality({i \in 1..Len(GainedRows) :
                                  GainedRows[i].id = threads[t].row_id}) = 1
            /\ \A t, u \in completed :
                  t # u => threads[t].row_id # threads[u].row_id
            /\ \A t \in completed :
                  \E i \in 1..Len(GainedRows) :
                      /\ GainedRows[i].id = threads[t].row_id
                      /\ GainedRows[i].term = threads[t].request.target
                      /\ GainedRows[i].score = TheValue(threads[t].request.response).score
            /\ connection.uncommitted_scores = 0

\* no request is under way and the lock is free
NoRequestUnderWay ==
    /\ \A t \in Threads : threads[t].pc = "idle" \/ Finished(t)
    /\ lock = Unlocked

\* C28: for every interleaving of K concurrent score_term requests with
\* persist = true on one store, every request gets the storage lock when it
\* asks for it and gives it back, on the error paths too, so that in the end
\* every request made has finished and the lock is free; and when all
\* have finished term_scores has gained exactly one row per completed
\* request (K rows when all K complete), with pairwise distinct ids, one
\* per request, none lost or duplicated.
C28_ConcurrentRequestsPersist ==
    /\ []RowsOnePerRequest
    /\ <>[]NoRequestUnderWay

\* all K requests have completed and term_scores has gained K rows, with
\* the ids 1..K
C28_Witness ==
    /\ \A t \in Threads : Completed(t)
    /\ Len(GainedRows) = NumThreads
    /\ {threads[t].row_id : t \in Threads} = 1..NumThreads
    /\ lock = Unlocked

=============================================================================
